---- MODULE Spec2Model ----
(***************************************************************************)
(* Knowledge-graph construction of bursa_baro_kg: the normalizer           *)
(* (nlp/normalizer.py), the graph builder (graph/builder.py) over a        *)
(* property-graph store, and the ingestion loop (main.py).                 *)
(*                                                                         *)
(* A text is a sequence of characters; a character is a string naming it:  *)
(* an ASCII character names itself, the others are                         *)
(*   "sp" U+0020, "tab" U+0009, "nbsp" U+00A0, "bang" '!', "dot" '.',     *)
(*   "us" '_', "hy" '-', "Idot" U+0130, "inodot" U+0131, "ccedil",        *)
(*   "Ccedil", "gbreve", "Gbreve", "ouml", "Ouml", "scedil", "Scedil",    *)
(*   "uuml", "Uuml", "eacute", and the combining marks "cdot" U+0307,     *)
(*   "cacute" U+0301.                                                      *)
(***************************************************************************)
EXTENDS Integers, Sequences, FiniteSets, TLC

VARIABLES
    nodes,      \* entity nodes of the store, by node id (creation order)
    rels,       \* relationships between entity nodes, by relationship id
    links,      \* MENTIONED_IN relationships entity -> Document
    docs,       \* Document nodes
    ret,        \* what the last builder call returned
    seen,       \* history: successful create_or_update_node calls per (label, key)
    relSeen,    \* history: successful create_relationship calls per directed edge
    trail,      \* history: the last ingestions, each with the graph before it
    ingested,   \* number of processed files step4_build_graph has handled
    graph_count, \* step4_build_graph: the count it returns
    pc,         \* concurrent workers: position inside create_or_update_node
    job,        \* concurrent workers: the mention being upserted
    found,      \* concurrent workers: node ids the MERGE's match phase bound
    proc,       \* the NLP processor object, as its __init__ left it
    input,      \* the text argument of the last make_key or process_text call
    result,     \* what that call returned
    ner_call,   \* history: what the call of the NER model did inside process_text
    is_running, \* AutoUpdater.is_running
    update_stats, \* AutoUpdater.update_stats: the three counters of runs
    jobs,       \* the jobs of the schedule module (a module-level list)
    threads,    \* the threads that run _run_scheduler or run_update, by thread id
    updater_cache, \* AutoUpdater.cache.memory_cache
    engine_cache,  \* SemanticSearchEngine.cache.memory_cache
    answer      \* what the last call of the search engine returned

vars == <<nodes, rels, links, docs, ret, seen, relSeen, trail, ingested, graph_count,
          pc, job, found,
          proc, input, result, ner_call,
          is_running, update_stats, jobs, threads, updater_cache, engine_cache, answer>>

storeVars == <<nodes, rels, links, docs>>
ingestVars == <<trail, ingested, graph_count>>
workerVars == <<pc, job, found>>
extractVars == <<proc, input, result, ner_call>>
updaterVars == <<is_running, update_stats, jobs, threads, updater_cache>>
engineVars == <<engine_cache, answer>>

-----------------------------------------------------------------------------
(* Sequence helpers *)

\* The element of a one-element set.  The({e : x \in {v}}) is e with x
\* standing for v, and v is evaluated once, however often e uses x.
The(S) == CHOOSE x \in S : TRUE

RECURSIVE ConcatFrom(_, _)
ConcatFrom(ss, i) == IF i > Len(ss) THEN <<>> ELSE ss[i] \o ConcatFrom(ss, i + 1)

Concat(ss) == The({ConcatFrom(v, 1) : v \in {<<>> \o ss}})

MapSeq(Op(_), s) == [i \in 1..Len(s) |-> Op(s[i])]

RECURSIVE FilterSeq(_, _)
FilterSeq(Keep(_), s) ==
    IF s = <<>> THEN <<>>
    ELSE IF Keep(Head(s)) THEN <<Head(s)>> \o FilterSeq(Keep, Tail(s))
    ELSE FilterSeq(Keep, Tail(s))

-----------------------------------------------------------------------------
(* nlp/normalizer.py *)

\* The characters Python's str.strip() and the regex class \s treat as whitespace.
IsSpace(c) == c \in {"sp", "tab", "nbsp"}

\* str.strip()
RECURSIVE LStrip(_)
LStrip(s) == IF s # <<>> /\ IsSpace(Head(s)) THEN LStrip(Tail(s)) ELSE s

RECURSIVE RStrip(_)
RStrip(s) ==
    IF s # <<>> /\ IsSpace(s[Len(s)]) THEN RStrip(SubSeq(s, 1, Len(s) - 1)) ELSE s

Strip(s) == RStrip(LStrip(s))

\* re.sub(r"\s+", " ", t): every run of whitespace becomes one space.
RECURSIVE CollapseSpaces(_)
CollapseSpaces(s) ==
    IF s = <<>> THEN <<>>
    ELSE IF IsSpace(Head(s)) THEN <<"sp">> \o CollapseSpaces(LStrip(s))
    ELSE <<Head(s)>> \o CollapseSpaces(Tail(s))

\* unicodedata.normalize("NFKC", .): compatibility characters are replaced
\* (no-break space by space) and a base letter followed by a combining mark is
\* composed where a precomposed character exists.
NFKCChar(c) == IF c = "nbsp" THEN "sp" ELSE c

RECURSIVE Compose(_)
Compose(s) ==
    IF Len(s) < 2 THEN s
    ELSE IF s[1] = "I" /\ s[2] = "cdot" THEN <<"Idot">> \o Compose(Tail(Tail(s)))
    ELSE IF s[1] = "e" /\ s[2] = "cacute" THEN <<"eacute">> \o Compose(Tail(Tail(s)))
    ELSE <<Head(s)>> \o Compose(Tail(s))

NFKC(s) == Compose(MapSeq(NFKCChar, s))

normalize_text(text) ==
    IF text = <<>> THEN <<>>
    ELSE Strip(CollapseSpaces(NFKC(text)))

\* str.lower(): U+0130 lowers to "i" followed by U+0307.
AsciiUpperSeq ==
    <<"A", "B", "C", "D", "E", "F", "G", "H", "I", "J", "K", "L", "M",
      "N", "O", "P", "Q", "R", "S", "T", "U", "V", "W", "X", "Y", "Z">>

AsciiLowerSeq ==
    <<"a", "b", "c", "d", "e", "f", "g", "h", "i", "j", "k", "l", "m",
      "n", "o", "p", "q", "r", "s", "t", "u", "v", "w", "x", "y", "z">>

LowerChar(c) ==
    CASE (\E i \in 1..26 : AsciiUpperSeq[i] = c) ->
            <<AsciiLowerSeq[CHOOSE i \in 1..26 : AsciiUpperSeq[i] = c]>>
      [] c = "Idot" -> <<"i", "cdot">>
      [] c = "Ccedil" -> <<"ccedil">> [] c = "Gbreve" -> <<"gbreve">>
      [] c = "Ouml" -> <<"ouml">> [] c = "Scedil" -> <<"scedil">>
      [] c = "Uuml" -> <<"uuml">>
      [] OTHER -> <<c>>

Lower(s) == Concat(MapSeq(LowerChar, s))

\* Variant of TrAsciiChar: the table has no entry for the dotless i.
TrAsciiCharNoDotless(c) ==
    CASE c \in {"ccedil", "Ccedil"} -> "c"
      [] c \in {"gbreve", "Gbreve"} -> "g"
      [] c \in {"I", "Idot"} -> "i"
      [] c \in {"ouml", "Ouml"} -> "o"
      [] c \in {"scedil", "Scedil"} -> "s"
      [] c \in {"uuml", "Uuml"} -> "u"
      [] OTHER -> c

\* _TR_ASCII_MAP
TrAsciiChar(c) ==
    CASE c \in {"ccedil", "Ccedil"} -> "c"
      [] c \in {"gbreve", "Gbreve"} -> "g"
      [] c \in {"inodot", "I", "Idot"} -> "i"
      [] c \in {"ouml", "Ouml"} -> "o"
      [] c \in {"scedil", "Scedil"} -> "s"
      [] c \in {"uuml", "Uuml"} -> "u"
      [] OTHER -> c

\* unicodedata.normalize("NFKD", .)
NFKDChar(c) ==
    CASE c = "nbsp" -> <<"sp">>
      [] c = "eacute" -> <<"e", "cacute">>
      [] c = "Idot" -> <<"I", "cdot">>
      [] OTHER -> <<c>>

NFKD(s) == Concat(MapSeq(NFKDChar, s))

\* unicodedata.combining(ch) # 0
Combining(c) == c \in {"cdot", "cacute"}

NotCombining(c) == ~Combining(c)

AsciiLower ==
    {"a", "b", "c", "d", "e", "f", "g", "h", "i", "j", "k", "l", "m",
     "n", "o", "p", "q", "r", "s", "t", "u", "v", "w", "x", "y", "z"}

AsciiDigit == {"0", "1", "2", "3", "4", "5", "6", "7", "8", "9"}

\* the characters the class [^a-z0-9\s._-] does not remove
KeyChar(c) == c \in AsciiLower \cup AsciiDigit \cup {"dot", "us", "hy"} \/ IsSpace(c)

make_key(text) ==
    IF text = <<>> THEN <<>>
    ELSE LET t1 == Lower(normalize_text(text))
             t2 == MapSeq(TrAsciiChar, t1)
             t3 == NFKD(t2)
             t4 == FilterSeq(NotCombining, t3)
             t5 == FilterSeq(KeyChar, t4)
         IN  Strip(CollapseSpaces(t5))

-----------------------------------------------------------------------------
(* The property-graph store.  A graph is a record                           *)
(*   [nodes, rels, links, docs]                                             *)
(* of sequences: the index of an element is its identity in the store, so   *)
(* two nodes with equal properties are still two nodes.  A property that    *)
(* was never set is null.                                                   *)

NullText == <<"NULL">>
NullType == "NULL"
NullCount == -1

\* Cypher's COALESCE(x, d) on a text and on a number
CoalesceText(x, d) == IF x = NullText THEN d ELSE x
\* Variant of CoalesceCount: the stored number is ignored (SET n.c = 0 + 1).
CoalesceCountIgnoresStored(x, d) == d

CoalesceCount(x, d) == IF x = NullCount THEN d ELSE x

\* Appends the elements of a set of pairs in a fixed (lexicographic) order.
RECURSIVE PairsInOrder(_)
PairsInOrder(S) ==
    IF S = {} THEN <<>>
    ELSE LET p == CHOOSE x \in S :
                    \A y \in S : x[1] < y[1] \/ (x[1] = y[1] /\ x[2] <= y[2])
         IN  <<p>> \o PairsInOrder(S \ {p})

-----------------------------------------------------------------------------
(* graph/builder.py *)

\* Variant of get_node_label: a person resolves among the organizations.
get_node_labelPersonAsOrganization(entity_label) ==
    CASE entity_label \in {"PERSON", "ORGANIZATION"} -> "Organization"
      [] entity_label = "LOCATION" -> "Location"
      [] entity_label = "DATE" -> "Date"
      [] entity_label = "LEGAL_TERM" -> "LegalTerm"
      [] OTHER -> "Entity"

get_node_label(entity_label) ==
    CASE entity_label = "PERSON" -> "Person"
      [] entity_label = "ORGANIZATION" -> "Organization"
      [] entity_label = "LOCATION" -> "Location"
      [] entity_label = "DATE" -> "Date"
      [] entity_label = "LEGAL_TERM" -> "LegalTerm"
      [] OTHER -> "Entity"

\* The label in the MERGE pattern that create_or_update_node picks for a node
\* label: the three branches of its if/elif/else.
MergeLabel(node_label) ==
    IF node_label = "Date" THEN "Date"
    ELSE IF node_label \in {"Person", "Organization", "Location"} THEN node_label
    ELSE "Entity"

\* Variant of MatchNodes: the pattern never matches (CREATE in place of MERGE).
MatchNodesNever(ns, label, key) == {}

\* MATCH (n:<label> {normalized_key: $key}): the ids of the nodes it binds.
MatchNodes(ns, label, key) ==
    {i \in DOMAIN ns : ns[i].label = label /\ ns[i].normalized_key = key}

\* Variant of MatchDocs: the pattern never matches (CREATE in place of MERGE).
MatchDocsNever(ds, url) == {}

\* MATCH (doc:Document {url: $url})
MatchDocs(ds, url) == {i \in DOMAIN ds : ds[i].url = url}

\* The node a MERGE creates when its pattern matches nothing: the pattern's
\* label and property, nothing else.
NewNode(label, key) ==
    [label |-> label, normalized_key |-> key, name |-> NullText,
     value |-> NullText, type |-> NullType, mention_count |-> NullCount]

\* SET clause of the Date branch
SetDate(n, name) ==
    [n EXCEPT !.value = name,
              !.mention_count = CoalesceCount(n.mention_count, 0) + 1]

\* Variant of SetNamed: mention_count is set on creation only.
SetNamedOnCreate(n, name) ==
    [n EXCEPT !.name = CoalesceText(n.name, name),
              !.mention_count = CoalesceCount(n.mention_count, 1)]

\* SET clause of the Person / Organization / Location branch
SetNamed(n, name) ==
    [n EXCEPT !.name = CoalesceText(n.name, name),
              !.mention_count = CoalesceCount(n.mention_count, 0) + 1]

\* Variant of SetEntity: mention_count starts anew when the type changes.
SetEntityCountsPerType(n, name, type) ==
    [n EXCEPT !.name = CoalesceText(n.name, name),
              !.type = type,
              !.mention_count = IF n.type = type THEN CoalesceCount(n.mention_count, 0) + 1
                                ELSE 1]

\* SET clause of the generic Entity branch
SetEntity(n, name, type) ==
    [n EXCEPT !.name = CoalesceText(n.name, name),
              !.type = type,
              !.mention_count = CoalesceCount(n.mention_count, 0) + 1]

SetNode(n, node_label, name, type) ==
    IF node_label = "Date" THEN SetDate(n, name)
    ELSE IF node_label \in {"Person", "Organization", "Location"} THEN SetNamed(n, name)
    ELSE SetEntity(n, name, type)

\* The parameters create_or_update_node computes from its argument.
EntityName(entity) == normalize_text(Strip(entity.text))
EntityKey(entity) == make_key(EntityName(entity))

\* MERGE (n:<label> {normalized_key: $key}) SET ... as one statement: bind the
\* matching nodes, or create one when there is none, then apply SET to every
\* bound node.
MergeSetNode(ns, node_label, key, name, type) ==
    LET label == MergeLabel(node_label)
        matched == MatchNodes(ns, label, key)
        merged == IF matched = {} THEN Append(ns, NewNode(label, key)) ELSE ns
        bound == IF matched = {} THEN {Len(ns) + 1} ELSE matched
    IN  [i \in DOMAIN merged |->
            IF i \in bound THEN SetNode(merged[i], node_label, name, type)
            ELSE merged[i]]

\* create_or_update_node when no exception is raised (it then returns True).
create_or_update_node(g, entity) ==
    [g EXCEPT !.nodes = MergeSetNode(g.nodes, get_node_label(entity.label),
                                     EntityKey(entity), EntityName(entity),
                                     entity.label)]

\* create_document_node when no exception is raised:
\* MERGE (doc:Document {url: $url}) SET doc.title, doc.content_length.
create_document_node(g, document_data) ==
    LET matched == MatchDocs(g.docs, document_data.url)
        merged == IF matched = {}
                  THEN Append(g.docs, [url |-> document_data.url, title |-> "NULL",
                                       content_length |-> NullCount])
                  ELSE g.docs
        bound == IF matched = {} THEN {Len(g.docs) + 1} ELSE matched
    IN  [g EXCEPT !.docs =
            [i \in DOMAIN merged |->
                IF i \in bound
                THEN [merged[i] EXCEPT !.title = document_data.title,
                                       !.content_length = document_data.content_length]
                ELSE merged[i]]]

\* The rows MATCH (e1:..) MATCH (e2:..) of create_relationship yields.
RelRows(g, entity1, entity2) ==
    MatchNodes(g.nodes, get_node_label(entity1.label), EntityKey(entity1))
    \X MatchNodes(g.nodes, get_node_label(entity2.label), EntityKey(entity2))

\* Variant of MatchRels: the pattern has no direction, (e1)-[r:<type>]-(e2).
MatchRelsEitherWay(rs, from, to, type) ==
    {i \in DOMAIN rs :
        /\ rs[i].type = type
        /\ \/ rs[i].from = from /\ rs[i].to = to
           \/ rs[i].from = to /\ rs[i].to = from}

\* MERGE (e1)-[r:<type>]->(e2): the relationships bound for one row.
MatchRels(rs, from, to, type) ==
    {i \in DOMAIN rs : rs[i].from = from /\ rs[i].to = to /\ rs[i].type = type}

\* Variant of SetRel: document_url is kept once set (first write wins).
SetRelKeepsUrl(r, document_url) ==
    [r EXCEPT !.strength = CoalesceCount(r.strength, 0) + 1,
              !.document_url = IF r.document_url = "NULL" THEN document_url
                               ELSE r.document_url]

\* SET clause of create_relationship
SetRel(r, document_url) ==
    [r EXCEPT !.strength = CoalesceCount(r.strength, 0) + 1,
              !.document_url = document_url]

\* MERGE ... SET of create_relationship, applied row by row.
RECURSIVE MergeSetRels(_, _, _, _)
MergeSetRels(rs, rows, type, document_url) ==
    IF rows = <<>> THEN rs
    ELSE LET from == Head(rows)[1]
             to == Head(rows)[2]
             matched == MatchRels(rs, from, to, type)
             merged == IF matched = {}
                       THEN Append(rs, [from |-> from, to |-> to, type |-> type,
                                        strength |-> NullCount, document_url |-> "NULL"])
                       ELSE rs
             bound == IF matched = {} THEN {Len(rs) + 1} ELSE matched
             after == [i \in DOMAIN merged |->
                          IF i \in bound THEN SetRel(merged[i], document_url)
                          ELSE merged[i]]
         IN  MergeSetRels(after, Tail(rows), type, document_url)

\* Variant of create_relationship: MERGE in place of MATCH for the two ends,
\* so that an absent end is created.
create_relationshipMergingEnds(g, entity1, entity2, relation_type, document_url) ==
    LET g1 == [g EXCEPT !.nodes = MergeSetNode(g.nodes, get_node_label(entity1.label),
                                               EntityKey(entity1), EntityName(entity1),
                                               entity1.label)]
        g2 == [g1 EXCEPT !.nodes = MergeSetNode(g1.nodes, get_node_label(entity2.label),
                                                EntityKey(entity2), EntityName(entity2),
                                                entity2.label)]
    IN  [g2 EXCEPT !.rels = MergeSetRels(g2.rels, PairsInOrder(RelRows(g2, entity1, entity2)),
                                         relation_type, document_url)]

\* create_relationship when no exception is raised: the graph after it.
create_relationship(g, entity1, entity2, relation_type, document_url) ==
    [g EXCEPT !.rels = MergeSetRels(g.rels, PairsInOrder(RelRows(g, entity1, entity2)),
                                    relation_type, document_url)]

\* What create_relationship returns when no exception is raised: result.single()
\* is a record exactly when the query produced a row.
create_relationship_result(g, entity1, entity2) == RelRows(g, entity1, entity2) # {}

\* The query of link_entities_to_document for one entity:
\* MATCH (doc) MATCH (e) MERGE (e)-[r:MENTIONED_IN]->(doc) SET r.sentence.
RECURSIVE MergeSetLinks(_, _, _)
MergeSetLinks(ls, rows, sentence) ==
    IF rows = <<>> THEN ls
    ELSE LET from == Head(rows)[1]
             to == Head(rows)[2]
             matched == {i \in DOMAIN ls : ls[i].from = from /\ ls[i].to = to}
             merged == IF matched = {}
                       THEN Append(ls, [from |-> from, to |-> to, sentence |-> "NULL"])
                       ELSE ls
             bound == IF matched = {} THEN {Len(ls) + 1} ELSE matched
             after == [i \in DOMAIN merged |->
                          IF i \in bound THEN [merged[i] EXCEPT !.sentence = sentence]
                          ELSE merged[i]]
         IN  MergeSetLinks(after, Tail(rows), sentence)

LinkOne(g, entity, document_url) ==
    LET rows == MatchNodes(g.nodes, get_node_label(entity.label), EntityKey(entity))
                \X MatchDocs(g.docs, document_url)
    IN  [g EXCEPT !.links = MergeSetLinks(g.links, PairsInOrder(rows), entity.sentence)]

\* link_entities_to_document: the loop runs the query entity by entity, each
\* in its own auto-commit transaction; failAt = 0 when no query raises,
\* otherwise the position of the entity whose query raises: the except clause
\* ends the loop there, and the links made before it stay.
RECURSIVE link_entities_to_document(_, _, _, _)
link_entities_to_document(g, entities, document_url, failAt) ==
    IF entities = <<>> \/ failAt = 1 THEN g
    ELSE link_entities_to_document(LinkOne(g, Head(entities), document_url),
                                   Tail(entities), document_url,
                                   IF failAt = 0 THEN 0 ELSE failAt - 1)

\* get_graph_stats
get_graph_stats(g) ==
    LET labels == {"Person", "Organization", "Location", "Date", "Entity", "LegalTerm"}
        node_count == Cardinality({i \in DOMAIN g.nodes : g.nodes[i].label \in labels})
    IN  [total_nodes |-> node_count + Len(g.docs),
         relationships |-> Len(g.rels) + Len(g.links)]

-----------------------------------------------------------------------------
(* main.py: step4_build_graph, the body of its loop for one processed file. *)
(* fault names the one store call of the ingestion that raises:             *)
(*   <<"none", 0>>, <<"doc", 0>>, <<"entity", i>>, <<"link", i>>,          *)
(*   <<"rel", j>>.                                                          *)

NoFault == <<"none", 0>>

\* for entity in entities: self.graph_builder.create_or_update_node(entity)
RECURSIVE UpsertEntities(_, _, _, _)
UpsertEntities(g, entities, i, fault) ==
    IF i > Len(entities) THEN g
    ELSE UpsertEntities(IF fault = <<"entity", i>> THEN g
                        ELSE create_or_update_node(g, entities[i]),
                        entities, i + 1, fault)

\* if entities: self.graph_builder.link_entities_to_document(entities, url)
LinkEntities(g, entities, url, fault) ==
    IF entities = <<>> THEN g
    ELSE link_entities_to_document(g, entities, url,
                                   IF fault[1] = "link" THEN fault[2] ELSE 0)

\* for relationship in relationships: ... create_relationship(entity1, entity2, ...)
RECURSIVE UpsertRelationships(_, _, _, _, _)
UpsertRelationships(g, relationships, j, url, fault) ==
    IF j > Len(relationships) THEN g
    ELSE LET r == relationships[j]
             entity1 == [text |-> r.entity1, label |-> r.entity1_label]
             entity2 == [text |-> r.entity2, label |-> r.entity2_label]
         IN  UpsertRelationships(
                 IF fault = <<"rel", j>> THEN g
                 ELSE create_relationship(g, entity1, entity2, r.relation_type, url),
                 relationships, j + 1, url, fault)

\* The order of the steps: Document node, entity upserts, links, relationships.
\* A Document upsert that fails skips the file (continue).
step4_build_graph(g, processed_data, fault) ==
    IF fault = <<"doc", 0>> THEN g
    ELSE LET entities == processed_data.nlp_result.entities
             relationships == processed_data.nlp_result.relationships
             g1 == create_document_node(g, processed_data)
             g2 == UpsertEntities(g1, entities, 1, fault)
             g3 == LinkEntities(g2, entities, processed_data.url, fault)
         IN  UpsertRelationships(g3, relationships, 1, processed_data.url, fault)

\* The store calls one iteration of the loop issues, in the order of issue.  A
\* call is named by its kind and by the position of its argument, as a fault
\* is: <<"doc", 0>>, <<"entity", i>>, <<"link", i>>, <<"rel", j>>; a call that
\* raises has been issued.  link_entities_to_document issues one query per
\* entity and none after a query that raised.
step4_issued(processed_data, fault) ==
    IF fault = <<"doc", 0>> THEN << <<"doc", 0>> >>
    ELSE LET entities == processed_data.nlp_result.entities
             relationships == processed_data.nlp_result.relationships
             queries == IF fault[1] = "link" /\ fault[2] <= Len(entities)
                        THEN fault[2] ELSE Len(entities)
         IN  << <<"doc", 0>> >>
             \o [i \in 1..Len(entities) |-> <<"entity", i>>]
             \o [i \in 1..queries |-> <<"link", i>>]
             \o [j \in 1..Len(relationships) |-> <<"rel", j>>]

-----------------------------------------------------------------------------
(* scheduler/updater.py: run_update, step 4, the body of its loop for one   *)
(* processed page.  data is [url, content_length, entities, relationships]; *)
(* the loop reads no title from it, so the Document gets the title ''.      *)

\* create_entity_node(entity_text, entity_label)
create_entity_node(g, entity_text, entity_label) ==
    create_or_update_node(g, [text |-> entity_text, label |-> entity_label])

\* The characters of a url of the model.
UrlChars == [u1 |-> <<"u", "1">>, u2 |-> <<"u", "2">>]

\* document_dict = {'text': data['url'], 'label': 'Document'}
document_dict(data) == [text |-> UrlChars[data.url], label |-> "Document"]

\* The calls of the loop body in the order of issue: the Document node, then
\* for every entity its node and at once its MENTIONED_IN relationship, then
\* the relationships.
run_update_issued(data) ==
    << <<"doc", 0>> >>
    \o Concat([i \in 1..Len(data.entities) |-> << <<"entity", i>>, <<"link", i>> >>])
    \o [j \in 1..Len(data.relationships) |-> <<"rel", j>>]

\* One call of the loop body; a call that raises inside the builder returns
\* False, which the loop ignores, and leaves the graph as it was.
run_update_call(g, data, call) ==
    CASE call[1] = "doc" ->
            create_document_node(g, [url |-> data.url, title |-> "",
                                     content_length |-> data.content_length])
      [] call[1] = "entity" ->
            create_entity_node(g, data.entities[call[2]].text, data.entities[call[2]].label)
      [] call[1] = "link" ->
            create_relationship(g, [text |-> data.entities[call[2]].text,
                                    label |-> data.entities[call[2]].label],
                                document_dict(data), "MENTIONED_IN", data.url)
      [] call[1] = "rel" ->
            create_relationship(g, [text |-> data.relationships[call[2]].entity1,
                                    label |-> data.relationships[call[2]].entity1_label],
                                [text |-> data.relationships[call[2]].entity2,
                                 label |-> data.relationships[call[2]].entity2_label],
                                data.relationships[call[2]].relation_type, data.url)

RECURSIVE run_update_calls(_, _, _, _, _)
run_update_calls(g, data, calls, k, fault) ==
    IF k > Len(calls) THEN g
    ELSE run_update_calls(IF calls[k] = fault THEN g ELSE run_update_call(g, data, calls[k]),
                          data, calls, k + 1, fault)

\* The graph after the loop body for one page.
run_update_graph(g, data, fault) ==
    run_update_calls(g, data, run_update_issued(data), 1, fault)

\* The page of a processed file as run_update holds it.
UpdaterData(processed_data) ==
    [url |-> processed_data.url, content_length |-> processed_data.content_length,
     entities |-> processed_data.nlp_result.entities,
     relationships |-> processed_data.nlp_result.relationships]

-----------------------------------------------------------------------------
(* Inputs the model draws from *)

\* Bounds: successful create_or_update_node calls and successful
\* create_relationship calls in one behaviour of Spec.
MaxUpserts == 3
MaxRelCalls == 2

tAli == <<"A", "l", "i">>
tALI == <<"A", "L", "Idot">>
tOz == <<"Ouml", "z">>
tBang == <<"bang">>
tBlank == <<"sp">>

MentionIn(text, label, sentence) == [text |-> text, label |-> label, sentence |-> sentence]

Mention(text, label) == MentionIn(text, label, "s1")

\* Mentions: two surface forms of one person, the same name as a place, as a
\* date (two surface forms) and as a legal term, an organization, and a text
\* whose key is empty.
Mentions ==
    {Mention(tAli, "PERSON"), Mention(tALI, "PERSON"), Mention(tAli, "LOCATION"),
     Mention(tOz, "ORGANIZATION"), Mention(tAli, "DATE"), Mention(tALI, "DATE"),
     Mention(tAli, "LEGAL_TERM"), Mention(tBang, "PERSON")}

RelCall(e1, e2, type, url) ==
    [entity1 |-> e1, entity2 |-> e2, relation_type |-> type, document_url |-> url]

\* create_relationship calls: a pair from two documents, its reverse, the same
\* pair under the person's other surface form and under another type, the same
\* keys with the first endpoint of another kind, and a pair with a LegalTerm end.
RelCalls ==
    {RelCall(Mention(tAli, "PERSON"), Mention(tOz, "ORGANIZATION"), "MENTIONED_WITH", "u1"),
     RelCall(Mention(tAli, "PERSON"), Mention(tOz, "ORGANIZATION"), "MENTIONED_WITH", "u2"),
     RelCall(Mention(tOz, "ORGANIZATION"), Mention(tAli, "PERSON"), "MENTIONED_WITH", "u1"),
     RelCall(Mention(tALI, "PERSON"), Mention(tOz, "ORGANIZATION"), "MENTIONED_WITH", "u1"),
     RelCall(Mention(tAli, "PERSON"), Mention(tOz, "ORGANIZATION"), "WORKS_AT", "u1"),
     RelCall(Mention(tAli, "LOCATION"), Mention(tOz, "ORGANIZATION"), "MENTIONED_WITH", "u1"),
     RelCall(Mention(tOz, "ORGANIZATION"), Mention(tAli, "LEGAL_TERM"), "MENTIONED_WITH", "u1")}

\* Bound: processed files handled in one behaviour of SpecIngest.
MaxIngests == 3

Rel(e1, e2) ==
    [entity1 |-> e1.text, entity1_label |-> e1.label,
     entity2 |-> e2.text, entity2_label |-> e2.label,
     relation_type |-> "MENTIONED_WITH"]

\* Processed files, as process_text leaves them: the entities are unique by
\* (lowered text, label) and both ends of every relationship are entities of
\* the file.  dA names the person in two surface forms, in two sentences, each
\* time with the organization; dB (another page) pairs the two in the reverse
\* order; dC (the page of dA, with other content) has an organization, a
\* date and a legal term in one sentence.
Documents ==
    [dA |-> [url |-> "u1", title |-> "t1", content_length |-> 40,
             nlp_result |->
                [entities |-> <<MentionIn(tAli, "PERSON", "s1"),
                                MentionIn(tOz, "ORGANIZATION", "s1"),
                                MentionIn(tALI, "PERSON", "s2")>>,
                 relationships |->
                    <<Rel(Mention(tAli, "PERSON"), Mention(tOz, "ORGANIZATION")),
                      Rel(Mention(tALI, "PERSON"), Mention(tOz, "ORGANIZATION"))>>]],
     dB |-> [url |-> "u2", title |-> "t2", content_length |-> 25,
             nlp_result |->
                [entities |-> <<MentionIn(tOz, "ORGANIZATION", "s3"),
                                MentionIn(tAli, "PERSON", "s3")>>,
                 relationships |->
                    <<Rel(Mention(tOz, "ORGANIZATION"), Mention(tAli, "PERSON"))>>]],
     dC |-> [url |-> "u1", title |-> "t3", content_length |-> 30,
             nlp_result |->
                [entities |-> <<MentionIn(tOz, "ORGANIZATION", "s4"),
                                MentionIn(tAli, "DATE", "s4"),
                                MentionIn(tAli, "LEGAL_TERM", "s4")>>,
                 relationships |->
                    <<Rel(Mention(tOz, "ORGANIZATION"), Mention(tAli, "DATE")),
                      Rel(Mention(tOz, "ORGANIZATION"), Mention(tAli, "LEGAL_TERM")),
                      Rel(Mention(tAli, "DATE"), Mention(tAli, "LEGAL_TERM"))>>]]]

\* The faults an ingestion is run under: none, the Document upsert raises, the
\* first entity upsert raises, the link query of the second entity raises (the
\* first link is made, the later ones are not attempted), the first
\* relationship upsert raises.
Faults == {NoFault, <<"doc", 0>>, <<"entity", 1>>, <<"link", 2>>, <<"rel", 1>>}

-----------------------------------------------------------------------------
(* State *)

G == [nodes |-> nodes, rels |-> rels, links |-> links, docs |-> docs]

SetGraph(g) ==
    /\ nodes' = g.nodes
    /\ rels' = g.rels
    /\ links' = g.links
    /\ docs' = g.docs

\* The identity under which the histories file a mention: the label of the
\* MERGE pattern and the key.
SeenId(entity) == <<MergeLabel(get_node_label(entity.label)), EntityKey(entity)>>

\* The identity under which the histories file a create_relationship call.
RelSeenId(entity1, entity2, relation_type) ==
    <<get_node_label(entity1.label), EntityKey(entity1),
      get_node_label(entity2.label), EntityKey(entity2), relation_type>>

Record(h, id, first) ==
    IF id \in DOMAIN h THEN [h EXCEPT ![id].n = @ + 1]
    ELSE [x \in DOMAIN h \cup {id} |-> IF x = id THEN [n |-> 1, first |-> first] ELSE h[x]]

RecordRel(h, id, url, at) ==
    [x \in DOMAIN h \cup {id} |->
        IF x = id
        THEN [n |-> (IF id \in DOMAIN h THEN h[id].n ELSE 0) + 1, last |-> url, at |-> at]
        ELSE h[x]]

RECURSIVE SumN(_, _)
SumN(h, ids) ==
    IF ids = {} THEN 0
    ELSE LET id == CHOOSE x \in ids : TRUE
         IN  h[id].n + SumN(h, ids \ {id})

\* Successful calls recorded in a history.
Calls(h) == SumN(h, DOMAIN h)

NoWorkers == <<>>

\* AutoUpdater.__init__: update_stats (the counters of runs)
NoUpdates == [total_updates |-> 0, successful_updates |-> 0, failed_updates |-> 0]

\* TTLCache(...): a cache with no entry; a cache maps keys to values
EmptyCache == <<>>

\* No processor has been constructed.
NoProcessor == [class |-> "none"]

\* What a call left: nothing yet, the value it returned, or the exception it
\* raised.
NoResult == [status |-> "none"]
Returned(value) == [status |-> "returned", value |-> value]
Raised == [status |-> "raised"]

Init ==
    /\ nodes = <<>>
    /\ rels = <<>>
    /\ links = <<>>
    /\ docs = <<>>
    /\ ret = "none"
    /\ seen = <<>>
    /\ relSeen = <<>>
    /\ trail = <<>>
    /\ ingested = 0
    /\ graph_count = 0
    /\ pc = NoWorkers
    /\ job = NoWorkers
    /\ found = NoWorkers
    /\ proc = NoProcessor
    /\ input = <<>>
    /\ result = NoResult
    /\ ner_call = "none"
    /\ is_running = FALSE
    /\ update_stats = NoUpdates
    /\ jobs = 0
    /\ threads = <<>>
    /\ updater_cache = EmptyCache
    /\ engine_cache = EmptyCache
    /\ answer = NoResult

-----------------------------------------------------------------------------
(* Spec: builder calls made one after the other *)

\* create_or_update_node(entity); ok = FALSE when the store raises, which the
\* except clause turns into False and which leaves the graph as it was.
CreateOrUpdateNode(entity, ok) ==
    /\ Calls(seen) < MaxUpserts
    /\ IF ok
       THEN /\ SetGraph(create_or_update_node(G, entity))
            /\ seen' = Record(seen, SeenId(entity), EntityName(entity))
            /\ ret' = TRUE
       ELSE /\ UNCHANGED <<nodes, rels, links, docs, seen>>
            /\ ret' = FALSE
    /\ UNCHANGED <<relSeen, ingestVars, updaterVars, engineVars, workerVars, extractVars>>

\* create_relationship(entity1, entity2, relation_type, document_url)
CreateRelationship(c, ok) ==
    /\ Calls(relSeen) < MaxRelCalls
    /\ IF ok
       THEN /\ SetGraph(create_relationship(G, c.entity1, c.entity2, c.relation_type,
                                            c.document_url))
            /\ ret' = create_relationship_result(G, c.entity1, c.entity2)
            /\ relSeen' = IF create_relationship_result(G, c.entity1, c.entity2)
                          THEN RecordRel(relSeen,
                                         RelSeenId(c.entity1, c.entity2, c.relation_type),
                                         c.document_url, Calls(relSeen) + 1)
                          ELSE relSeen
       ELSE /\ UNCHANGED <<nodes, rels, links, docs, relSeen>>
            /\ ret' = FALSE
    /\ UNCHANGED <<seen, ingestVars, updaterVars, engineVars, workerVars, extractVars>>

Next ==
    \/ \E e \in Mentions, ok \in BOOLEAN : CreateOrUpdateNode(e, ok)
    \/ \E c \in RelCalls, ok \in BOOLEAN : CreateRelationship(c, ok)

Spec == Init /\ [][Next]_vars

-----------------------------------------------------------------------------
(* SpecIngest: step4_build_graph handles processed files one after the other *)

\* One iteration of the loop of step4_build_graph, for the file named name.
Ingest(name, fault) ==
    /\ ingested < MaxIngests
    /\ ingested' = ingested + 1
    /\ SetGraph(step4_build_graph(G, Documents[name], fault))
    /\ trail' = (IF Len(trail) < 2 THEN trail ELSE Tail(trail))
                \o <<[doc |-> name, fault |-> fault, before |-> G,
                       count_before |-> graph_count, path |-> "step4_build_graph",
                       issued |-> step4_issued(Documents[name], fault)]>>
    /\ ret' = (fault # <<"doc", 0>>)
    /\ graph_count' = IF fault = <<"doc", 0>> THEN graph_count ELSE graph_count + 1
    /\ UNCHANGED <<seen, relSeen, workerVars, extractVars, updaterVars, engineVars>>

NextIngest ==
    \E name \in DOMAIN Documents, fault \in Faults : Ingest(name, fault)

SpecIngest == Init /\ [][NextIngest]_vars

-----------------------------------------------------------------------------
(* SpecPaths: processed files reach the graph by the pipeline               *)
(* (step4_build_graph) and by the updater (run_update), one after the other *)

\* One iteration of the graph loop of run_update, for the page named name.
UpdaterIngest(name, fault) ==
    /\ ingested < MaxIngests
    /\ ingested' = ingested + 1
    /\ SetGraph(run_update_graph(G, UpdaterData(Documents[name]), fault))
    /\ trail' = (IF Len(trail) < 2 THEN trail ELSE Tail(trail))
                \o <<[doc |-> name, fault |-> fault, before |-> G,
                       count_before |-> graph_count, path |-> "run_update",
                       issued |-> run_update_issued(UpdaterData(Documents[name]))]>>
    /\ ret' = "none"
    /\ UNCHANGED <<graph_count, seen, relSeen, workerVars, extractVars, updaterVars,
                   engineVars>>

NextPaths ==
    \/ \E name \in DOMAIN Documents, fault \in Faults : Ingest(name, fault)
    \/ \E name \in DOMAIN Documents, fault \in Faults : UpdaterIngest(name, fault)

SpecPaths == Init /\ [][NextPaths]_vars

-----------------------------------------------------------------------------
(* SpecBuilder: the builder's methods called one after the other on a store *)
(* that raises in none of them, with mentions of every kind of node:        *)
(* an organization, a person of the same key and a person of a key one      *)
(* letter away from it ('demirer' and 'demirler': similarity 93 of 100), a  *)
(* legal term and a mention with the label 'Entity' of the same key.        *)

\* config.py: the settings of fuzzy matching.  No module reads them: the
\* builder resolves a mention by its node label and its key, nothing else.
ENABLE_FUZZY_MATCH == TRUE
FUZZY_THRESHOLD == 90

tDemirler == <<"D", "e", "m", "i", "r", "l", "e", "r">>
tDemirer == <<"D", "e", "m", "i", "r", "e", "r">>

KindMentions ==
    {Mention(tDemirler, "ORGANIZATION"), Mention(tDemirler, "PERSON"),
     Mention(tDemirer, "PERSON"), Mention(tAli, "LEGAL_TERM"), Mention(tAli, "Entity")}

KindRelCalls ==
    {RelCall(Mention(tDemirler, "PERSON"), Mention(tAli, "Entity"), "MENTIONED_WITH", "u1"),
     RelCall(Mention(tDemirer, "PERSON"), Mention(tDemirler, "ORGANIZATION"),
             "MENTIONED_WITH", "u1"),
     RelCall(Mention(tDemirler, "ORGANIZATION"), Mention(tAli, "LEGAL_TERM"),
             "MENTIONED_WITH", "u1")}

KindDocument == [url |-> "u1", title |-> "t1", content_length |-> 40]

\* create_document_node(document_data)
CreateDocumentNode(document_data) ==
    /\ SetGraph(create_document_node(G, document_data))
    /\ ret' = TRUE
    /\ UNCHANGED <<seen, relSeen, ingestVars, updaterVars, engineVars, workerVars,
                   extractVars>>

\* link_entities_to_document(entities, document_url)
LinkEntitiesToDocument(entities, document_url) ==
    /\ SetGraph(link_entities_to_document(G, entities, document_url, 0))
    /\ ret' = TRUE
    /\ UNCHANGED <<seen, relSeen, ingestVars, updaterVars, engineVars, workerVars,
                   extractVars>>

\* clean_database(): MATCH (n) DETACH DELETE n.  The histories start anew.
CleanDatabase ==
    /\ SetGraph([nodes |-> <<>>, rels |-> <<>>, links |-> <<>>, docs |-> <<>>])
    /\ seen' = <<>>
    /\ relSeen' = <<>>
    /\ ret' = "none"
    /\ UNCHANGED <<ingestVars, updaterVars, engineVars, workerVars, extractVars>>

NextBuilder ==
    \/ \E e \in KindMentions : CreateOrUpdateNode(e, TRUE)
    \/ \E c \in KindRelCalls : CreateRelationship(c, TRUE)
    \/ CreateDocumentNode(KindDocument)
    \/ \E e \in KindMentions : LinkEntitiesToDocument(<<e>>, KindDocument.url)
    \/ CleanDatabase

SpecBuilder == Init /\ [][NextBuilder]_vars

-----------------------------------------------------------------------------
(* SpecUpdater: one AutoUpdater (scheduler/updater.py).  start_scheduler,   *)
(* stop_scheduler and force_update are called from the thread of the API's  *)
(* event loop, one at a time; _run_scheduler and the run_update calls run   *)
(* in threads of their own and take no lock.  A thread is                   *)
(*   [kind, pc, counter, read, runs]:                                       *)
(* kind "scheduler" (runs _run_scheduler, and run_update inside             *)
(* schedule.run_pending) or "forced" (runs run_update, started by           *)
(* force_update); pc is its position; counter and read hold the entry of    *)
(* update_stats it is adding 1 to and the value it read from it (the        *)
(* statement d[k] += 1 reads, adds and stores in separate steps); runs      *)
(* counts the runs of the job a scheduler thread has made.                  *)

\* Bounds: the threads started in one behaviour, and the times one scheduler
\* thread finds the job due.
MaxThreads == 2
MaxScheduledRuns == 1

Thread(kind) ==
    [kind |-> kind, pc |-> IF kind = "scheduler" THEN "loop" ELSE "guard",
     counter |-> "none", read |-> 0, runs |-> 0]

\* Where a thread goes when its run_update returns.
AfterRun(thread) == IF thread.kind = "scheduler" THEN "loop" ELSE "done"

\* The pages a run processes and the outcomes of its steps 1 to 4: the
\* sitemap gave no url, no page had content, an exception reached the outer
\* except clause, or the pages went into the graph.
UpdaterPages == {"dA", "dB"}
Outcomes == {"no_urls", "no_data", "raised", "ok"}

\* start_scheduler(); it returns at once when the scheduler is running.
StartScheduler ==
    /\ ~is_running
    /\ Len(threads) < MaxThreads
    /\ jobs' = jobs + 1
    /\ is_running' = TRUE
    /\ threads' = Append(threads, Thread("scheduler"))
    /\ UNCHANGED <<storeVars, ret, seen, relSeen, ingestVars, workerVars, extractVars,
                   update_stats, updater_cache, engineVars>>

\* stop_scheduler(): is_running = False, schedule.clear()
StopScheduler ==
    /\ is_running' = FALSE
    /\ jobs' = 0
    /\ UNCHANGED <<storeVars, ret, seen, relSeen, ingestVars, workerVars, extractVars,
                   update_stats, threads, updater_cache, engineVars>>

\* force_update(): starts a thread on run_update and returns status 'started'.
ForceUpdate ==
    /\ Len(threads) < MaxThreads
    /\ threads' = Append(threads, Thread("forced"))
    /\ UNCHANGED <<storeVars, ret, seen, relSeen, ingestVars, workerVars, extractVars,
                   is_running, update_stats, jobs, updater_cache, engineVars>>

\* _run_scheduler: while self.is_running is false, the thread ends.
SchedulerExit(t) ==
    /\ threads[t].pc = "loop"
    /\ ~is_running
    /\ threads' = [threads EXCEPT ![t].pc = "exit"]
    /\ UNCHANGED <<storeVars, ret, seen, relSeen, ingestVars, workerVars, extractVars,
                   is_running, update_stats, jobs, updater_cache, engineVars>>

\* _run_scheduler: schedule.run_pending() finds the job due and calls
\* run_update in this thread.
SchedulerRunPending(t) ==
    /\ threads[t].pc = "loop"
    /\ is_running
    /\ jobs > 0
    /\ threads[t].runs < MaxScheduledRuns
    /\ threads' = [threads EXCEPT ![t].pc = "guard", ![t].runs = @ + 1]
    /\ UNCHANGED <<storeVars, ret, seen, relSeen, ingestVars, workerVars, extractVars,
                   is_running, update_stats, jobs, updater_cache, engineVars>>

\* run_update: if not self.is_running: return
RunUpdateGuard(t) ==
    /\ threads[t].pc = "guard"
    /\ threads' = [threads EXCEPT
                      ![t].pc = IF is_running THEN "read"
                                ELSE IF threads[t].kind = "scheduler" THEN "loop"
                                ELSE "skipped",
                      ![t].counter = IF is_running THEN "total_updates" ELSE "none"]
    /\ UNCHANGED <<storeVars, ret, seen, relSeen, ingestVars, workerVars, extractVars,
                   is_running, update_stats, jobs, updater_cache, engineVars>>

\* self.update_stats[counter] ... + 1: the read
ReadCounter(t) ==
    /\ threads[t].pc = "read"
    /\ threads' = [threads EXCEPT ![t].pc = "write",
                                  ![t].read = update_stats[threads[t].counter]]
    /\ UNCHANGED <<storeVars, ret, seen, relSeen, ingestVars, workerVars, extractVars,
                   is_running, update_stats, jobs, updater_cache, engineVars>>

\* self.update_stats[counter] = (the value read) + 1: the store.  After
\* total_updates the run goes on; after the two others it returns.
WriteCounter(t) ==
    /\ threads[t].pc = "write"
    /\ update_stats' = [update_stats EXCEPT ![threads[t].counter] = threads[t].read + 1]
    /\ threads' = [threads EXCEPT
                      ![t].pc = IF threads[t].counter = "total_updates" THEN "work"
                                ELSE AfterRun(threads[t]),
                      ![t].counter = "none", ![t].read = 0]
    /\ UNCHANGED <<storeVars, ret, seen, relSeen, ingestVars, workerVars, extractVars,
                   is_running, jobs, updater_cache, engineVars>>

\* run_update, steps 1 to 5: scraping, NLP, the graph loop for the page named
\* name and self.cache.clear(); the three outcomes without a graph lead to
\* failed_updates += 1.
RunUpdateWork(t, outcome, name) ==
    /\ threads[t].pc = "work"
    /\ IF outcome = "ok"
       THEN /\ SetGraph(run_update_graph(G, UpdaterData(Documents[name]), NoFault))
            /\ updater_cache' = EmptyCache
            /\ threads' = [threads EXCEPT ![t].pc = "read",
                                          ![t].counter = "successful_updates"]
       ELSE /\ UNCHANGED <<storeVars, updater_cache>>
            /\ threads' = [threads EXCEPT ![t].pc = "read",
                                          ![t].counter = "failed_updates"]
    /\ UNCHANGED <<ret, seen, relSeen, ingestVars, workerVars, extractVars,
                   is_running, update_stats, jobs, engineVars>>

NextUpdater ==
    \/ StartScheduler
    \/ StopScheduler
    \/ ForceUpdate
    \/ \E t \in DOMAIN threads : SchedulerExit(t)
    \/ \E t \in DOMAIN threads : SchedulerRunPending(t)
    \/ \E t \in DOMAIN threads : RunUpdateGuard(t)
    \/ \E t \in DOMAIN threads : ReadCounter(t)
    \/ \E t \in DOMAIN threads : WriteCounter(t)
    \/ \E t \in DOMAIN threads, outcome \in Outcomes, name \in UpdaterPages :
          RunUpdateWork(t, outcome, name)

SpecUpdater == Init /\ [][NextUpdater]_vars

-----------------------------------------------------------------------------
(* SpecConc: workers call create_or_update_node at the same time.           *)
(* _create_indexes declares indexes on normalized_key and no uniqueness     *)
(* constraint, so the store runs the MERGE of a call as a match followed,   *)
(* when nothing matched, by a create, and takes no lock between the two:    *)
(* another call's MERGE may run in between.  The SET of a call runs under   *)
(* the write lock of the node it updates.                                   *)

\* Bounds: the workers, and the successful calls in one behaviour of SpecConc.
NumWorkers == 2
MaxConcCalls == 3

Workers == 1..NumWorkers

ConcMentions ==
    {Mention(tAli, "PERSON"), Mention(tALI, "PERSON"), Mention(tOz, "ORGANIZATION")}

InFlight == Cardinality({w \in Workers : pc[w] = "matched"})

InitConc ==
    /\ nodes = <<>>
    /\ rels = <<>>
    /\ links = <<>>
    /\ docs = <<>>
    /\ ret = "none"
    /\ seen = <<>>
    /\ relSeen = <<>>
    /\ trail = <<>>
    /\ ingested = 0
    /\ graph_count = 0
    /\ pc = [w \in Workers |-> "idle"]
    /\ job = [w \in Workers |-> Mention(<<>>, "none")]
    /\ found = [w \in Workers |-> {}]
    /\ proc = NoProcessor
    /\ input = <<>>
    /\ result = NoResult
    /\ ner_call = "none"
    /\ is_running = FALSE
    /\ update_stats = NoUpdates
    /\ jobs = 0
    /\ threads = <<>>
    /\ updater_cache = EmptyCache
    /\ engine_cache = EmptyCache
    /\ answer = NoResult

\* Worker w enters create_or_update_node(entity): the match of its MERGE.
MergeMatch(w, entity) ==
    /\ pc[w] = "idle"
    /\ Calls(seen) + InFlight < MaxConcCalls
    /\ pc' = [pc EXCEPT ![w] = "matched"]
    /\ job' = [job EXCEPT ![w] = entity]
    /\ found' = [found EXCEPT ![w] =
                    MatchNodes(nodes, MergeLabel(get_node_label(entity.label)),
                               EntityKey(entity))]
    /\ UNCHANGED <<storeVars, ret, seen, relSeen, ingestVars, updaterVars, engineVars, extractVars>>

\* The rest of the statement of worker w: create the node when the match bound
\* none, SET on the bound nodes, commit; the call returns True.
MergeWrite(w) ==
    /\ pc[w] = "matched"
    /\ LET entity == job[w]
           node_label == get_node_label(entity.label)
           merged == IF found[w] = {}
                     THEN Append(nodes, NewNode(MergeLabel(node_label), EntityKey(entity)))
                     ELSE nodes
           bound == IF found[w] = {} THEN {Len(nodes) + 1} ELSE found[w]
       IN  nodes' = [i \in DOMAIN merged |->
                        IF i \in bound
                        THEN SetNode(merged[i], node_label, EntityName(entity), entity.label)
                        ELSE merged[i]]
    /\ seen' = Record(seen, SeenId(job[w]), EntityName(job[w]))
    /\ ret' = TRUE
    /\ pc' = [pc EXCEPT ![w] = "idle"]
    /\ found' = [found EXCEPT ![w] = {}]
    /\ UNCHANGED <<rels, links, docs, relSeen, ingestVars, updaterVars, engineVars, job, extractVars>>

\* The store raises in the call of worker w: nothing is written, the call
\* returns False.
MergeRaise(w) ==
    /\ pc[w] = "matched"
    /\ ret' = FALSE
    /\ pc' = [pc EXCEPT ![w] = "idle"]
    /\ found' = [found EXCEPT ![w] = {}]
    /\ UNCHANGED <<storeVars, seen, relSeen, ingestVars, updaterVars, engineVars, job, extractVars>>

NextConc ==
    \/ \E w \in Workers, e \in ConcMentions : MergeMatch(w, e)
    \/ \E w \in Workers : MergeWrite(w)
    \/ \E w \in Workers : MergeRaise(w)

SpecConc == InitConc /\ [][NextConc]_vars

-----------------------------------------------------------------------------
(* nlp/processor.py, nlp/stanza_processor.py: texts, sentences and words.   *)
(* Further characters: "qm" '?', "sl" '/'.                                  *)

\* re.split(r'[.!?]+', text): the pieces between the runs of terminators, the
\* empty pieces at the two ends included.
IsTerminator(c) == c \in {"dot", "bang", "qm"}

RECURSIVE SkipTerminators(_)
SkipTerminators(s) ==
    IF s # <<>> /\ IsTerminator(Head(s)) THEN SkipTerminators(Tail(s)) ELSE s

RECURSIVE SplitSentences(_, _)
SplitSentences(s, piece) ==
    IF s = <<>> THEN <<piece>>
    ELSE IF IsTerminator(Head(s)) THEN <<piece>> \o SplitSentences(SkipTerminators(s), <<>>)
    ELSE SplitSentences(Tail(s), Append(piece, Head(s)))

\* The words of a sentence, each as the pair of the positions of its first and
\* last character: the maximal runs of characters that are not whitespace.
RECURSIVE WordSpans(_, _, _)
WordSpans(s, i, from) ==
    IF i > Len(s)
    THEN IF from = 0 THEN <<>> ELSE <<<<from, Len(s)>>>>
    ELSE IF IsSpace(s[i])
         THEN (IF from = 0 THEN <<>> ELSE <<<<from, i - 1>>>>) \o WordSpans(s, i + 1, 0)
         ELSE WordSpans(s, i + 1, IF from = 0 THEN i ELSE from)

WordsOf(s) ==
    The({[k \in DOMAIN spans |-> SubSeq(s, spans[k][1], spans[k][2])] :
            spans \in {WordSpans(s, 1, 0)}})

\* ' '.join(words)
RECURSIVE JoinWords(_)
JoinWords(ws) ==
    IF ws = <<>> THEN <<>>
    ELSE IF Len(ws) = 1 THEN Head(ws)
    ELSE Head(ws) \o <<"sp">> \o JoinWords(Tail(ws))

\* a in s, for two strings
IsSubstring(a, s) ==
    \E i \in 0..(Len(s) - Len(a)) : SubSeq(s, i + 1, i + Len(a)) = a

-----------------------------------------------------------------------------
(* Regular expressions.  Inside a sentence there is no '.', '!' or '?', and  *)
(* the expressions of the two processors are built from whole words         *)
(* separated by \s+ between two \b: an expression is matched against the    *)
(* sequence of the words of the sentence.  An expression is                 *)
(*   a word class:  Lit(name), ILit(name), AnyWord, Cap(n), Digits(m, n),   *)
(*                  DateDMY, DateYMD;                                       *)
(*   Cat(<<r1, ..., rn>>)   r1\s+r2...\s+rn;                                 *)
(*   Alt(<<r1, ..., rn>>)   r1|...|rn, in the order the engine tries them;   *)
(*   Rep(r, min, max)       greedy repetition, r separated by \s+.           *)
(* A literal is named by its spelling in the source; Spelling gives the     *)
(* characters of the literals that the words of the modelled texts can      *)
(* equal, with or without re.IGNORECASE; no word of the texts equals        *)
(* another literal.                                                         *)
(* In the name of a literal an apostrophe after a letter marks the Turkish  *)
(* letter: c' U+00E7, g' U+011F, i' U+0131, I' U+0130, o' U+00F6,           *)
(* s' U+015F, u' U+00FC, and their capitals C', G', O', S', U'.             *)

Spelling ==
    "Bursa" :> <<"B", "u", "r", "s", "a">>
    @@ "BURSA" :> <<"B", "U", "R", "S", "A">>
    @@ "Barosu" :> <<"B", "a", "r", "o", "s", "u">>
    @@ "BAROSU" :> <<"B", "A", "R", "O", "S", "U">>
    @@ "dava" :> <<"d", "a", "v", "a">>
    @@ "Dava" :> <<"D", "a", "v", "a">>
    @@ "DAVA" :> <<"D", "A", "V", "A">>
    @@ "hakim" :> <<"h", "a", "k", "i", "m">>
    @@ "Hakim" :> <<"H", "a", "k", "i", "m">>
    @@ "HAKI'M" :> <<"H", "A", "K", "Idot", "M">>

Lit(name) == [op |-> "lit", name |-> name, icase |-> FALSE]
ILit(name) == [op |-> "lit", name |-> name, icase |-> TRUE]
AnyWord == [op |-> "any"]
Cap(n) == [op |-> "cap", n |-> n]
Digits(m, n) == [op |-> "digits", min |-> m, max |-> n]
DateDMY == [op |-> "dmy"]
DateYMD == [op |-> "ymd"]
Cat(parts) == [op |-> "cat", parts |-> parts]
Alt(parts) == [op |-> "alt", parts |-> parts]
Rep(r, min, max) == [op |-> "rep", r |-> r, min |-> min, max |-> max]
Opt(r) == Rep(r, 0, 1)

\* [A-ZÇĞIÖŞÜ] and [a-zçğıöşü]
TrUpper == {AsciiUpperSeq[i] : i \in 1..26} \cup {"Ccedil", "Gbreve", "Ouml", "Scedil", "Uuml"}
TrLower == AsciiLower \cup {"ccedil", "gbreve", "inodot", "ouml", "scedil", "uuml"}

\* The case folding of re.IGNORECASE: a letter matches its other case, and I,
\* i, U+0130 and U+0131 match one another.
IFoldChar(c) ==
    CASE c \in {"I", "Idot", "inodot"} -> "i"
      [] c = "Ccedil" -> "ccedil" [] c = "Gbreve" -> "gbreve" [] c = "Ouml" -> "ouml"
      [] c = "Scedil" -> "scedil" [] c = "Uuml" -> "uuml"
      [] (\E i \in 1..26 : AsciiUpperSeq[i] = c) ->
            AsciiLowerSeq[CHOOSE i \in 1..26 : AsciiUpperSeq[i] = c]
      [] OTHER -> c

IFold(w) == MapSeq(IFoldChar, w)

\* The shape of a word: "d" for a digit, "p" for '.' or '/', "x" otherwise.
ShapeChar(c) == IF c \in AsciiDigit THEN "d" ELSE IF c \in {"dot", "sl"} THEN "p" ELSE "x"

DMYShapes ==
    {<<"d", "p", "d", "p", "d", "d", "d", "d">>,
     <<"d", "d", "p", "d", "p", "d", "d", "d", "d">>,
     <<"d", "p", "d", "d", "p", "d", "d", "d", "d">>,
     <<"d", "d", "p", "d", "d", "p", "d", "d", "d", "d">>}

YMDShapes ==
    {<<"d", "d", "d", "d", "p", "d", "p", "d">>,
     <<"d", "d", "d", "d", "p", "d", "d", "p", "d">>,
     <<"d", "d", "d", "d", "p", "d", "p", "d", "d">>,
     <<"d", "d", "d", "d", "p", "d", "d", "p", "d", "d">>}

\* Does the word w match the word class c?
InClass(c, w) ==
    CASE c.op = "lit" ->
            /\ c.name \in DOMAIN Spelling
            /\ IF c.icase THEN IFold(w) = IFold(Spelling[c.name]) ELSE w = Spelling[c.name]
      [] c.op = "any" -> TRUE
      [] c.op = "cap" ->
            /\ Len(w) >= 1 + c.n
            /\ w[1] \in TrUpper
            /\ \A i \in 2..Len(w) : w[i] \in TrLower
      [] c.op = "digits" ->
            /\ Len(w) >= c.min /\ Len(w) <= c.max
            /\ \A i \in DOMAIN w : w[i] \in AsciiDigit
      [] c.op = "dmy" -> MapSeq(ShapeChar, w) \in DMYShapes
      [] c.op = "ymd" -> MapSeq(ShapeChar, w) \in YMDShapes

\* The positions after the last word of the matches of r that begin at word
\* pos of ws, in the order the backtracking engine finds them: the first is
\* the match the engine reports.
RECURSIVE Ends(_, _, _)
Ends(r, ws, pos) ==
    CASE r.op = "cat" ->
            IF r.parts = <<>> THEN <<pos>>
            ELSE The({Concat([k \in DOMAIN firsts |->
                                Ends(Cat(Tail(r.parts)), ws, firsts[k])]) :
                         firsts \in {Ends(Head(r.parts), ws, pos)}})
      [] r.op = "alt" ->
            Concat([k \in DOMAIN r.parts |-> Ends(r.parts[k], ws, pos)])
      [] r.op = "rep" ->
            The({Concat([k \in DOMAIN once |-> Ends(again, ws, once[k])])
                 \o (IF r.min = 0 THEN <<pos>> ELSE <<>>) :
                    once \in {IF r.max = 0 THEN <<>> ELSE Ends(r.r, ws, pos)},
                    again \in {Rep(r.r, IF r.min = 0 THEN 0 ELSE r.min - 1, r.max - 1)}})
      [] OTHER ->
            IF pos <= Len(ws) /\ InClass(r, ws[pos]) THEN <<pos + 1>> ELSE <<>>

\* pattern.finditer(sentence): the matches from left to right, none
\* overlapping another, each as the pair of its first and last word.
RECURSIVE FindIter(_, _, _)
FindIter(r, ws, pos) ==
    IF pos > Len(ws) THEN <<>>
    ELSE The({IF ends = <<>> \/ Head(ends) = pos THEN FindIter(r, ws, pos + 1)
              ELSE <<<<pos, Head(ends) - 1>>>> \o FindIter(r, ws, Head(ends)) :
                 ends \in {Ends(r, ws, pos)}})

\* pattern.search(word) on one word
SearchWord(r, w) == FindIter(r, <<w>>, 1) # <<>>

\* match.group() of the match m in sentence s
Group(s, m) ==
    The({SubSeq(s, spans[m[1]][1], spans[m[2]][2]) : spans \in {WordSpans(s, 1, 0)}})

-----------------------------------------------------------------------------
(* nlp/processor.py: NLPProcessor *)

\* The * and + of a repetition: no upper limit.
Unbounded == -1

\* NLPProcessor._init_regex_patterns
person_patterns ==
    <<Cat(<<Alt(<<Cat(<<Lit("Prof"), Lit("Dr")>>), Lit("ProfDr"), Lit("Dr"),
                  Cat(<<Lit("Doc'"), Lit("Dr")>>), Lit("Doc'Dr"), Lit("Av")>>),
            Cap(1), Cap(1), Rep(Cap(1), 0, Unbounded)>>),
      Cat(<<Alt(<<Lit("Bas'kan"), Lit("Mu'du'r"), Lit("Dekan"), Lit("Rekto'r"),
                  Cat(<<Lit("Genel"), Lit("Mu'du'r")>>)>>),
            Cap(1), Cap(1), Rep(Cap(1), 0, Unbounded)>>),
      Cat(<<Cap(2), Cap(2), Opt(Cap(2))>>)>>

organization_patterns ==
    <<Cat(<<Opt(ILit("Bursa")),
            Alt(<<ILit("Barosu"), Cat(<<ILit("Barolar"), ILit("Birlig'i")>>), ILit("Baro")>>)>>),
      Cat(<<ILit("Tu'rkiye"), ILit("Barolar"), ILit("Birlig'i")>>),
      Cat(<<AnyWord,
            Alt(<<ILit("Mahkeme"), ILit("Mahkemesi"),
                  Cat(<<ILit("Sulh"), ILit("Hukuk"), ILit("Mahkemesi")>>),
                  Cat(<<ILit("Asliye"), ILit("Hukuk"), ILit("Mahkemesi")>>)>>)>>),
      Alt(<<ILit("Yargi'tay"), ILit("Dani's'tay"),
            Cat(<<ILit("Anayasa"), ILit("Mahkemesi")>>)>>),
      Cat(<<AnyWord, ILit("U'niversitesi"), Opt(Cat(<<AnyWord, ILit("Faku'ltesi")>>))>>),
      Cat(<<Alt(<<ILit("Adalet"), ILit("I'c'is'leri"), ILit("Di's'is'leri"), ILit("Maliye")>>),
            ILit("Bakanlig'i'")>>),
      Cat(<<AnyWord,
            Alt(<<ILit("Bakanlig'i'"), ILit("Mu'du'rlu'g'u'"), ILit("Bas'kanlig'i'")>>)>>),
      Cat(<<AnyWord, Rep(AnyWord, 0, Unbounded),
            Alt(<<ILit("Derneg'i"), ILit("Vakfi'"), ILit("Federasyonu"), ILit("Birlig'i")>>)>>),
      Cat(<<AnyWord, Rep(AnyWord, 0, Unbounded),
            Alt(<<ILit("A.S'."), Cat(<<ILit("Ltd"), ILit("S'ti")>>), ILit("LtdS'ti"),
                  ILit("S'irketi")>>)>>),
      Alt(<<ILit("Bakanli'k"), ILit("Bakanlig'i'")>>),
      Alt(<<ILit("Mu'du'rlu'k"), ILit("Mu'du'rlu'g'u'")>>),
      Alt(<<ILit("Dernek"), ILit("Derneg'i")>>),
      Alt(<<ILit("Vaki'f"), ILit("Vakfi'")>>),
      Alt(<<ILit("Ltd"), ILit("A.S'."), ILit("S'ti")>>),
      Alt(<<ILit("MERKEZI'"), ILit("MERKEZ"), ILit("MERKEZ")>>),
      Alt(<<ILit("DANIS'MA"), ILit("DANIS'")>>),
      Cat(<<ILit("BI'LGI'"), Opt(ILit("DANIS'MA")), Alt(<<ILit("MERKEZI'"), ILit("MERKEZ")>>)>>)>>

location_patterns ==
    <<ILit("BURSA"),
      ILit("Bursa"),
      Alt(<<ILit("I'stanbul"), ILit("Ankara"), ILit("I'zmir"), ILit("Antalya"),
            ILit("Adana"), ILit("Konya")>>),
      Cat(<<Cap(1),
            Alt(<<Lit("I'li"), Lit("I'l"), Lit("S'ehri"), Lit("S'ehr"),
                  Lit("Mahallesi"), Lit("Mahalles"), Lit("Caddesi"), Lit("Caddes"),
                  Lit("Sokag'i'"), Lit("Sokag'")>>)>>)>>

Months ==
    Alt(<<ILit("Ocak"), ILit("S'ubat"), ILit("Mart"), ILit("Nisan"), ILit("Mayi's"),
          ILit("Haziran"), ILit("Temmuz"), ILit("Ag'ustos"), ILit("Eylu'l"), ILit("Ekim"),
          ILit("Kasi'm"), ILit("Arali'k")>>)

date_patterns ==
    <<DateDMY, DateYMD, Cat(<<Digits(1, 2), Months, Digits(4, 4)>>)>>

legal_terms_patterns ==
    <<Alt(<<ILit("AVUKAT"), ILit("Avukat")>>),
      Alt(<<ILit("HUKUK"), ILit("Hukuk")>>),
      Alt(<<ILit("DAVA"), ILit("Dava")>>),
      Alt(<<ILit("MAHKEMESI'"), ILit("MAHKEMES"), ILit("Mahkeme")>>),
      Alt(<<ILit("SAVCI"), ILit("Savci'")>>),
      Alt(<<ILit("HAKI'M"), ILit("Hakim")>>)>>

\* sentence_idx of a mention the NER pipeline gave: None
NoneIdx == -1

\* The dict of a mention
Entity(t, label, sentence_idx, sentence) ==
    [text |-> t, label |-> label, sentence_idx |-> sentence_idx, sentence |-> sentence]

\* The dict of a relationship candidate
Relationship(entity1, entity2, sentence, sentence_idx) ==
    [entity1 |-> entity1.text, entity1_label |-> entity1.label,
     entity2 |-> entity2.text, entity2_label |-> entity2.label,
     relation_type |-> "MENTIONED_WITH",
     sentence |-> sentence, sentence_idx |-> sentence_idx]

\* Sentences shorter than this are skipped; a person's name must be longer
\* than MinPersonLen; the context of an organization match reaches
\* ContextChars characters to each side.
MinSentenceLen == 10
MinPersonLen == 5
ContextChars == 50

Max(a, b) == IF a >= b THEN a ELSE b
Min(a, b) == IF a <= b THEN a ELSE b

\* The matches of the patterns of one list in a sentence, pattern by pattern,
\* each as <<pattern, match>>.
AllMatches(patterns, sentence) ==
    The({Concat([k \in DOMAIN patterns |->
                    The({[n \in DOMAIN ms |-> <<patterns[k], ms[n]>>] :
                            ms \in {FindIter(patterns[k], ws, 1)}})]) :
            ws \in {WordsOf(sentence)}})

\* for pattern in self.person_patterns: ...
PersonEntities(sentence, sentence_idx) ==
    LET One(m) ==
            The({IF Len(person_text) > MinPersonLen
                    /\ (\E i \in DOMAIN person_text : person_text[i] = "sp")
                 THEN <<Entity(person_text, "PERSON", sentence_idx, sentence)>>
                 ELSE <<>> :
                    person_text \in {Strip(Group(sentence, m[2]))}})
    IN  The({Concat([k \in DOMAIN ms |-> One(ms[k])]) :
                ms \in {AllMatches(person_patterns, sentence)}})

\* The name of the organization: the match, or - when a word of the context
\* alone matches the pattern and is not the first - that word with the one or
\* two words before it.
OrgName(pattern, sentence, m) ==
    LET Context(spans) ==
            LET start == Max(0, (spans[m[1]][1] - 1) - ContextChars)
                end == Min(Len(sentence), spans[m[2]][2] + ContextChars)
            IN  SubSeq(sentence, start + 1, end)
        Hits(org_words) == {i \in DOMAIN org_words : SearchWord(pattern, org_words[i])}
        MatchWordIdx(hits) == IF hits = {} THEN -1
                              ELSE (CHOOSE i \in hits : \A j \in hits : i <= j) - 1
    IN  The({The({The({IF match_word_idx > 0
                       THEN JoinWords(SubSeq(org_words, Max(0, match_word_idx - 2) + 1,
                                             match_word_idx + 1))
                       ELSE Group(sentence, m) :
                          match_word_idx \in {MatchWordIdx(hits)}}) :
                    hits \in {Hits(org_words)}}) :
                org_words \in {WordsOf(Context(WordSpans(sentence, 1, 0)))}})

\* for pattern in self.organization_patterns: ...
OrganizationEntities(sentence, sentence_idx) ==
    The({[k \in DOMAIN ms |->
             Entity(Strip(OrgName(ms[k][1], sentence, ms[k][2])), "ORGANIZATION",
                    sentence_idx, sentence)] :
            ms \in {AllMatches(organization_patterns, sentence)}})

\* for pattern in <location, date, legal term patterns>: ...
PlainEntities(patterns, label, sentence, sentence_idx) ==
    The({[k \in DOMAIN ms |->
             Entity(Strip(Group(sentence, ms[k][2])), label, sentence_idx, sentence)] :
            ms \in {AllMatches(patterns, sentence)}})

\* Variant of PairUp: every two mentions of the sentence are paired, of one
\* kind or of two.
PairUpAnyKinds(sentence_entities, sentence, sentence_idx) ==
    Concat([i \in DOMAIN sentence_entities |->
        Concat([j \in DOMAIN sentence_entities |->
            IF j > i
            THEN <<Relationship(sentence_entities[i], sentence_entities[j],
                                sentence, sentence_idx)>>
            ELSE <<>>])])

\* for i in range(len(sentence_entities)): for j in range(i + 1, ...):
\*     if entity1['label'] != entity2['label']: relationships.append(...)
PairUp(sentence_entities, sentence, sentence_idx) ==
    Concat([i \in DOMAIN sentence_entities |->
        Concat([j \in DOMAIN sentence_entities |->
            IF j > i /\ sentence_entities[i].label # sentence_entities[j].label
            THEN <<Relationship(sentence_entities[i], sentence_entities[j],
                                sentence, sentence_idx)>>
            ELSE <<>>])])

\* The first element of each class of a key, in the order of the list.
RECURSIVE UniqueBy(_, _, _)
UniqueBy(Key(_), s, seenKeys) ==
    IF s = <<>> THEN <<>>
    ELSE The({IF key \in seenKeys THEN UniqueBy(Key, rest, seenKeys)
              ELSE <<Head(s)>> \o UniqueBy(Key, rest, seenKeys \cup {key}) :
                 key \in {Key(Head(s))}, rest \in {Tail(s)}})

\* Variant of EntityDedupKey: a mention is a duplicate only inside its own
\* sentence.
EntityDedupKeyPerSentence(entity) ==
    <<Lower(entity.text), entity.label, entity.sentence_idx>>

\* entity_key = (entity['text'].lower(), entity['label'])
EntityDedupKey(entity) == <<Lower(entity.text), entity.label>>

\* rel_key = (rel['entity1'].lower(), rel['entity2'].lower(), rel['relation_type'])
RelDedupKey(rel) == <<Lower(rel.entity1), Lower(rel.entity2), rel.relation_type>>

\* What one sentence of _process_with_regex yields: its mentions and its
\* relationship candidates; nothing when it is shorter than MinSentenceLen.
RegexSentence(piece, sentence_idx) ==
    LET Found(sentence) ==
            PersonEntities(sentence, sentence_idx)
            \o OrganizationEntities(sentence, sentence_idx)
            \o PlainEntities(location_patterns, "LOCATION", sentence, sentence_idx)
            \o PlainEntities(date_patterns, "DATE", sentence, sentence_idx)
            \o PlainEntities(legal_terms_patterns, "LEGAL_TERM", sentence, sentence_idx)
    IN  The({IF Len(sentence) < MinSentenceLen
             THEN [entities |-> <<>>, relationships |-> <<>>]
             ELSE The({[entities |-> sentence_entities,
                        relationships |-> PairUp(sentence_entities, sentence, sentence_idx)] :
                          sentence_entities \in {Found(sentence)}}) :
                sentence \in {Strip(piece)}})

\* len([s for s in sentences if len(s.strip()) >= 10])
ProcessedSentences(sentences) ==
    Cardinality({k \in DOMAIN sentences : Len(Strip(sentences[k])) >= MinSentenceLen})

\* NLPProcessor._process_with_regex
process_with_regex(t) ==
    The({The({The({[entities |-> UniqueBy(EntityDedupKey, entities, {}),
                    relationships |-> UniqueBy(RelDedupKey, relationships, {}),
                    total_sentences |-> Len(sentences),
                    processed_sentences |-> ProcessedSentences(sentences)] :
                      entities \in {Concat([k \in DOMAIN per |-> per[k].entities])},
                      relationships \in {Concat([k \in DOMAIN per |-> per[k].relationships])}}) :
                per \in {<<>> \o [k \in DOMAIN sentences |->
                                     RegexSentence(sentences[k], k - 1)]}}) :
            sentences \in {SplitSentences(t, <<>>)}})

\* label_map.get(raw_label, 'Entity')
label_map(raw_label) ==
    CASE raw_label \in {"PER", "B-PER", "I-PER"} -> "PERSON"
      [] raw_label \in {"ORG", "B-ORG", "I-ORG"} -> "ORGANIZATION"
      [] raw_label \in {"LOC", "B-LOC", "I-LOC"} -> "LOCATION"
      [] OTHER -> "Entity"

\* for item in ner_results: ... entities.append({...})
NerEntities(ner_results) ==
    Concat([k \in DOMAIN ner_results |->
        The({IF ent_text = <<>> THEN <<>>
             ELSE <<Entity(ent_text, label_map(ner_results[k].entity_group),
                           NoneIdx, NullText)>> :
                ent_text \in {Strip(ner_results[k].word)}})])

IsRegexOnly(e) == e.label \in {"DATE", "LEGAL_TERM"}

\* if ent.get('sentence_idx') is not None: continue
\* if ent['text'] and ent['text'] in s: ...
UnassignedIn(ent, s, sentence_idx) ==
    /\ ent.sentence_idx = NoneIdx
    /\ ent.text # <<>>
    /\ IsSubstring(ent.text, s)

\* The relationship candidates of one sentence of _process_with_transformers.
TransformerSentence(entities, piece, sentence_idx) ==
    LET SentEnts(s) ==
            Concat([k \in DOMAIN entities |->
                      IF UnassignedIn(entities[k], s, sentence_idx)
                      THEN <<[entities[k] EXCEPT !.sentence_idx = sentence_idx,
                                                 !.sentence = s]>>
                      ELSE <<>>])
    IN  The({IF Len(s) < MinSentenceLen THEN <<>>
             ELSE The({PairUp(sent_ents, s, sentence_idx) : sent_ents \in {SentEnts(s)}}) :
                s \in {Strip(piece)}})

\* NLPProcessor._process_with_transformers; ner is what self.ner_pipeline(text)
\* does: it raises, or it returns the list ner.results.
process_with_transformers(t, ner) ==
    IF ner.raises THEN process_with_regex(t)
    ELSE The({The({The({[entities |-> UniqueBy(EntityDedupKey, entities, {}),
                         relationships |-> UniqueBy(RelDedupKey, relationships, {}),
                         total_sentences |-> Len(sentences),
                         processed_sentences |-> ProcessedSentences(sentences)] :
                           relationships \in
                              {Concat([k \in DOMAIN sentences |->
                                         TransformerSentence(entities, sentences[k], k - 1)])}}) :
                     entities \in {NerEntities(ner.results)
                                   \o FilterSeq(IsRegexOnly, regex_only.entities)}}) :
                 sentences \in {SplitSentences(t, <<>>)},
                 regex_only \in {process_with_regex(t)}})

\* NLPProcessor.__init__: USE_SPACY is False; use_transformers_ner is the
\* setting USE_TRANSFORMERS_NER, turned off when loading the pipeline raises.
NLPProcessor(setting, loads) ==
    [class |-> "NLPProcessor",
     use_spacy |-> FALSE,
     use_transformers_ner |-> setting /\ loads,
     ner_pipeline |-> IF setting /\ loads THEN "pipeline" ELSE "None",
     regex_patterns |-> TRUE]

\* NLPProcessor.process_text
NLPProcessor_process_text(self, t, ner) ==
    The({IF self.use_spacy THEN Returned("None")
         ELSE IF self.use_transformers_ner /\ self.ner_pipeline # "None"
         THEN Returned(process_with_transformers(normalized, ner))
         ELSE Returned(process_with_regex(normalized)) :
            normalized \in {normalize_text(t)}})

-----------------------------------------------------------------------------
(* nlp/stanza_processor.py: StanzaNLPProcessor.  A confidence is written in *)
(* tenths: 10 for 1.0, 8 for 0.8.                                           *)

\* StanzaNLPProcessor._init_regex_patterns
stanza_person_pattern == Cat(<<Cap(1), Cap(1), Rep(Cap(1), 0, Unbounded)>>)

stanza_organization_patterns ==
    <<Cat(<<Opt(ILit("BURSA")), Alt(<<ILit("BAROSU"), ILit("BARO")>>)>>),
      Alt(<<ILit("Barosu"), ILit("Baros"), ILit("Baro")>>),
      Alt(<<ILit("Mahkeme"), ILit("Mahkemesi")>>),
      Alt(<<ILit("U'niversite"), ILit("U'niversitesi")>>),
      Alt(<<ILit("Bakanli'k"), ILit("Bakanlig'i'")>>),
      Alt(<<ILit("Mu'du'rlu'k"), ILit("Mu'du'rlu'g'u'")>>),
      Alt(<<ILit("Dernek"), ILit("Derneg'i")>>),
      Alt(<<ILit("Vaki'f"), ILit("Vakfi'")>>),
      Alt(<<ILit("Ltd"), ILit("A.S'."), ILit("S'ti")>>),
      Alt(<<ILit("MERKEZI'"), ILit("MERKEZ"), ILit("MERKEZ")>>),
      Cat(<<ILit("BI'LGI'"), Opt(ILit("DANIS'MA")), Alt(<<ILit("MERKEZI'"), ILit("MERKEZ")>>)>>)>>

stanza_location_patterns ==
    <<ILit("BURSA"),
      ILit("Bursa"),
      Alt(<<ILit("I'stanbul"), ILit("Ankara"), ILit("I'zmir"), ILit("Antalya"),
            ILit("Adana"), ILit("Konya")>>)>>

stanza_date_patterns ==
    <<DateDMY, DateYMD, Cat(<<Digits(1, 2), Months, Digits(4, 4)>>)>>

\* _extract_additional_entities: legal_terms and org_patterns
legal_terms == <<"avukat", "hukuk", "dava", "mahkeme", "hakim", "savci'", "kanun", "yasa">>

additional_org_patterns ==
    <<Cat(<<Opt(ILit("Bursa")), Alt(<<ILit("Barosu"), ILit("Baro")>>)>>),
      Cat(<<AnyWord,
            Alt(<<ILit("Bakanlig'i'"), ILit("Bakanlig'"), ILit("Mu'du'rlu'g'u'"),
                  ILit("Mu'du'rlu'g'"), ILit("Derneg'i"), ILit("Derneg'"),
                  ILit("Vakfi'"), ILit("Vakf")>>)>>),
      Cat(<<AnyWord,
            Alt(<<ILit("U'niversitesi"), ILit("U'niversites"),
                  ILit("Mahkemesi"), ILit("Mahkemes")>>)>>)>>

StanzaEntity(t, label, sentence_idx, sentence, confidence) ==
    [text |-> t, label |-> label, sentence_idx |-> sentence_idx, sentence |-> sentence,
     confidence |-> confidence]

StanzaRelationship(entity1, entity2, sentence, sentence_idx, confidence) ==
    [entity1 |-> entity1.text, entity1_label |-> entity1.label,
     entity2 |-> entity2.text, entity2_label |-> entity2.label,
     relation_type |-> "MENTIONED_WITH",
     sentence |-> sentence, sentence_idx |-> sentence_idx, confidence |-> confidence]

\* StanzaNLPProcessor._map_stanza_entity_type, of the upper-cased type
map_stanza_entity_type(stanza_type) ==
    CASE stanza_type \in {"PER", "PERSON"} -> "PERSON"
      [] stanza_type \in {"ORG", "ORGANIZATION"} -> "ORGANIZATION"
      [] stanza_type \in {"LOC", "LOCATION", "GPE"} -> "LOCATION"
      [] stanza_type \in {"DATE", "TIME"} -> "DATE"
      [] stanza_type = "MONEY" -> "MONETARY"
      [] stanza_type = "PERCENT" -> "PERCENTAGE"
      [] stanza_type = "MISC" -> "MISCELLANEOUS"
      [] OTHER -> "ENTITY"

\* The least length of a mention Stanza's NER gives, and of an additional
\* organization.
MinStanzaEntLen == 1
MinAdditionalOrgLen == 3

\* StanzaNLPProcessor._extract_additional_entities
extract_additional_entities(sentence, sent_idx) ==
    LET Legal(term, ws, lowered) ==
            IF term \in DOMAIN Spelling /\ IsSubstring(Lower(Spelling[term]), lowered)
            THEN The({[k \in DOMAIN ms |->
                         StanzaEntity(Group(sentence, ms[k]), "LEGAL_TERM", sent_idx,
                                      sentence, 8)] :
                        ms \in {FindIter(ILit(term), ws, 1)}})
            ELSE <<>>
        OrgOne(m) ==
            The({IF Len(entity_text) > MinAdditionalOrgLen
                 THEN <<StanzaEntity(entity_text, "ORGANIZATION", sent_idx, sentence, 7)>>
                 ELSE <<>> :
                    entity_text \in {Strip(Group(sentence, m))}})
        Org(pattern, ws) ==
            The({Concat([k \in DOMAIN ms |-> OrgOne(ms[k])]) :
                    ms \in {FindIter(pattern, ws, 1)}})
    IN  The({Concat([k \in DOMAIN legal_terms |-> Legal(legal_terms[k], ws, lowered)])
             \o Concat([k \in DOMAIN additional_org_patterns |->
                          Org(additional_org_patterns[k], ws)]) :
                ws \in {WordsOf(sentence)}, lowered \in {Lower(sentence)}})

\* for i in range(len(sentence_entities)): for j in range(i + 1, ...): with
\* the confidence of the pair: the lesser of the two mentions', or the fixed
\* one of the fallback.
StanzaPairUp(sentence_entities, sentence, sentence_idx, fixed) ==
    Concat([i \in DOMAIN sentence_entities |->
        Concat([j \in DOMAIN sentence_entities |->
            IF j > i /\ sentence_entities[i].label # sentence_entities[j].label
            THEN <<StanzaRelationship(sentence_entities[i], sentence_entities[j],
                       sentence, sentence_idx,
                       IF fixed # 0 THEN fixed
                       ELSE Min(sentence_entities[i].confidence,
                                sentence_entities[j].confidence))>>
            ELSE <<>>])])

\* _remove_duplicate_entities, _remove_duplicate_relationships: the keys
StanzaEntityKey(entity) == <<Strip(Lower(entity.text)), entity.label>>
StanzaRelKey(rel) == <<Strip(Lower(rel.entity1)), Strip(Lower(rel.entity2)), rel.relation_type>>

\* One sentence of _process_with_stanza; sentence is what Stanza returned for
\* it: its text and the mentions (text, type) of its NER.
StanzaSentence(sentence, sent_idx) ==
    LET Ner(ent) ==
            The({IF Len(entity_text) > MinStanzaEntLen
                 THEN <<StanzaEntity(entity_text, map_stanza_entity_type(ent.type),
                                     sent_idx, sentence.text, 10)>>
                 ELSE <<>> :
                    entity_text \in {Strip(ent.text)}})
    IN  The({[entities |-> sentence_entities,
              relationships |-> StanzaPairUp(sentence_entities, sentence.text, sent_idx, 0)] :
                sentence_entities \in
                   {Concat([k \in DOMAIN sentence.ents |-> Ner(sentence.ents[k])])
                    \o extract_additional_entities(sentence.text, sent_idx)}})

\* One sentence of the fallback StanzaNLPProcessor._process_with_regex
StanzaRegexSentence(piece, sentence_idx) ==
    LET Found(patterns, label, confidence, sentence) ==
            The({[k \in DOMAIN ms |->
                    StanzaEntity(Strip(Group(sentence, ms[k][2])), label, sentence_idx,
                                 sentence, confidence)] :
                    ms \in {AllMatches(patterns, sentence)}})
        AllFound(sentence) ==
            Found(<<stanza_person_pattern>>, "PERSON", 6, sentence)
            \o Found(stanza_organization_patterns, "ORGANIZATION", 6, sentence)
            \o Found(stanza_location_patterns, "LOCATION", 6, sentence)
            \o Found(stanza_date_patterns, "DATE", 8, sentence)
    IN  The({IF Len(sentence) < MinSentenceLen
             THEN [entities |-> <<>>, relationships |-> <<>>]
             ELSE The({[entities |-> sentence_entities,
                        relationships |->
                            StanzaPairUp(sentence_entities, sentence, sentence_idx, 5)] :
                          sentence_entities \in {AllFound(sentence)}}) :
                sentence \in {Strip(piece)}})

\* StanzaNLPProcessor._process_with_regex.  The patterns are attributes that
\* only _init_regex_patterns sets: without them the first sentence that is
\* not skipped raises AttributeError.
stanza_process_with_regex(self, t) ==
    LET Result(sentences, per) ==
            The({Returned(
                   [entities |-> UniqueBy(StanzaEntityKey, entities, {}),
                    relationships |-> UniqueBy(StanzaRelKey, relationships, {}),
                    total_sentences |-> Len(sentences),
                    processed_sentences |-> ProcessedSentences(sentences),
                    nlp_method |-> "regex"]) :
                   entities \in {Concat([k \in DOMAIN per |-> per[k].entities])},
                   relationships \in {Concat([k \in DOMAIN per |-> per[k].relationships])}})
    IN  The({IF ~self.regex_patterns /\ ProcessedSentences(sentences) > 0 THEN Raised
             ELSE The({Result(sentences, per) :
                          per \in {<<>> \o [k \in DOMAIN sentences |->
                                               StanzaRegexSentence(sentences[k], k - 1)]}}) :
                sentences \in {SplitSentences(t, <<>>)}})

\* StanzaNLPProcessor._process_with_stanza; doc is what self.nlp(text) does:
\* it raises, or it returns the sentences doc.sentences.
process_with_stanza(self, t, doc) ==
    IF doc.raises THEN stanza_process_with_regex(self, t)
    ELSE The({The({Returned(
                     [entities |-> UniqueBy(StanzaEntityKey, entities, {}),
                      relationships |-> UniqueBy(StanzaRelKey, relationships, {}),
                      total_sentences |-> Len(doc.sentences),
                      processed_sentences |-> Len(doc.sentences),
                      nlp_method |-> "stanza"]) :
                     entities \in {Concat([k \in DOMAIN per |-> per[k].entities])},
                     relationships \in {Concat([k \in DOMAIN per |-> per[k].relationships])}}) :
                 per \in {<<>> \o [k \in DOMAIN doc.sentences |->
                                      StanzaSentence(doc.sentences[k], k - 1)]}})

\* StanzaNLPProcessor.__init__: the patterns are initialised only when loading
\* the Stanza pipeline raises.
StanzaNLPProcessor(loads) ==
    [class |-> "StanzaNLPProcessor", use_stanza |-> loads, regex_patterns |-> ~loads]

\* StanzaNLPProcessor.process_text
Stanza_process_text(self, t, doc) ==
    IF self.use_stanza THEN process_with_stanza(self, t, doc)
    ELSE stanza_process_with_regex(self, t)

-----------------------------------------------------------------------------
(* SpecExtract: a processor is constructed and process_text is called on a  *)
(* text.  The NER model is outside the program: what it returns for a text  *)
(* is chosen among the mentions that occur in the text.                     *)

\* Bounds: the sentences of a text, and the mentions the NER model returns
\* for one text.
MaxSentences == 2
MaxNer == 2

tBURSA == <<"B", "U", "R", "S", "A">>
tBursa == <<"B", "u", "r", "s", "a">>
tbursaSp == <<"b", "u", "r", "s", "a", "sp">>
wBarosu == <<"B", "a", "r", "o", "s", "u">>
wgeldi == <<"g", "e", "l", "d", "i">>
wAhmet == <<"A", "h", "m", "e", "t">>
wYilmaz == <<"Y", "inodot", "l", "m", "a", "z">>
wdava == <<"d", "a", "v", "a">>
wve == <<"v", "e">>
wHAKIM == <<"H", "A", "K", "Idot", "M">>
wHakim == <<"H", "a", "k", "i", "m">>

sBaro == JoinWords(<<tBursa, wBarosu, wgeldi>>)
sDava == JoinWords(<<wAhmet, wYilmaz, wdava, wve, wgeldi>>)
sHakim == JoinWords(<<wHAKIM, wve, wHakim, wgeldi>>)
sShort == tBursa
sTwoPersons == JoinWords(<<wAhmet, wYilmaz, wve, wYilmaz, wAhmet>>)
sAll == JoinWords(<<tBursa, wBarosu, wAhmet, wYilmaz, wdava>>)

ExtractSentences == {sBaro, sDava, sHakim, sShort, sTwoPersons, sAll}

RECURSIVE TextsOf(_)
TextsOf(n) ==
    IF n = 0 THEN {<<>>}
    ELSE LET shorter == TextsOf(n - 1)
         IN  shorter \cup {IF t = <<>> THEN s \o <<"dot">> ELSE t \o <<"sp">> \o s \o <<"dot">> :
                              t \in shorter, s \in ExtractSentences}

ExtractTexts == TextsOf(MaxSentences) \ {<<>>}

\* The mentions a NER model finds, in the order of the list.
NerItems ==
    <<[word |-> JoinWords(<<wAhmet, wYilmaz>>), entity_group |-> "PER"],
      [word |-> JoinWords(<<tBursa, wBarosu>>), entity_group |-> "ORG"],
      [word |-> tBursa, entity_group |-> "LOC"]>>

RECURSIVE Pick(_, _)
Pick(items, chosen) ==
    IF items = <<>> THEN <<>>
    ELSE (IF 1 \in chosen THEN <<items[1]>> ELSE <<>>)
         \o Pick(Tail(items), {k - 1 : k \in chosen \ {1}})

\* The results of the NER model for text t: at most limit of the mentions
\* that occur in it.
NerResults(t, limit) ==
    {Pick(NerItems, chosen) :
        chosen \in {c \in SUBSET (DOMAIN NerItems) :
                       /\ Cardinality(c) <= limit
                       /\ \A k \in c : IsSubstring(NerItems[k].word, t)}}

\* The sentences of text t as Stanza's tokenizer returns them.
StanzaPieces(t) ==
    LET pieces == SplitSentences(t, <<>>)
    IN  Concat([k \in DOMAIN pieces |->
                   IF Strip(pieces[k]) = <<>> THEN <<>> ELSE <<Strip(pieces[k])>>])

RECURSIVE StanzaDocs(_, _)
StanzaDocs(pieces, limit) ==
    IF pieces = <<>> THEN {<<>>}
    ELSE UNION {{<<[text |-> pieces[1],
                    ents |-> [k \in DOMAIN ents_found |->
                                 [text |-> ents_found[k].word, type |-> ents_found[k].entity_group]]]>>
                 \o rest : rest \in StanzaDocs(Tail(pieces), limit - Len(ents_found))} :
                ents_found \in NerResults(pieces[1], limit)}

InitExtract ==
    /\ nodes = <<>>
    /\ rels = <<>>
    /\ links = <<>>
    /\ docs = <<>>
    /\ ret = "none"
    /\ seen = <<>>
    /\ relSeen = <<>>
    /\ trail = <<>>
    /\ ingested = 0
    /\ graph_count = 0
    /\ pc = NoWorkers
    /\ job = NoWorkers
    /\ found = NoWorkers
    /\ proc = NoProcessor
    /\ input = <<>>
    /\ result = NoResult
    /\ ner_call = "none"
    /\ is_running = FALSE
    /\ update_stats = NoUpdates
    /\ jobs = 0
    /\ threads = <<>>
    /\ updater_cache = EmptyCache
    /\ engine_cache = EmptyCache
    /\ answer = NoResult

\* NLPProcessor(): setting is USE_TRANSFORMERS_NER, loads whether loading the
\* model succeeds.
NewNLPProcessor(setting, loads) ==
    /\ proc = NoProcessor
    /\ proc' = NLPProcessor(setting, loads)
    /\ UNCHANGED <<storeVars, ret, seen, relSeen, ingestVars, updaterVars, engineVars, workerVars, input, result, ner_call>>

\* StanzaNLPProcessor()
NewStanzaNLPProcessor(loads) ==
    /\ proc = NoProcessor
    /\ proc' = StanzaNLPProcessor(loads)
    /\ UNCHANGED <<storeVars, ret, seen, relSeen, ingestVars, updaterVars, engineVars, workerVars, input, result, ner_call>>

\* NLPProcessor.process_text(t); raises is whether the call of the model
\* raises.
ProcessText(t, raises) ==
    /\ proc.class = "NLPProcessor"
    /\ result = NoResult
    /\ \E found_by_ner \in NerResults(normalize_text(t), MaxNer) :
          /\ raises => found_by_ner = <<>>
          /\ input' = t
          /\ result' = NLPProcessor_process_text(proc, t,
                          [raises |-> raises, results |-> found_by_ner])
    /\ ner_call' = IF ~proc.use_transformers_ner THEN "not called"
                   ELSE IF raises THEN "raised" ELSE "answered"
    /\ UNCHANGED <<storeVars, ret, seen, relSeen, ingestVars, updaterVars, engineVars, workerVars, proc>>

\* StanzaNLPProcessor.process_text(t)
StanzaProcessText(t, raises) ==
    /\ proc.class = "StanzaNLPProcessor"
    /\ result = NoResult
    /\ \E sentences \in StanzaDocs(StanzaPieces(t), MaxNer) :
          /\ raises => \A k \in DOMAIN sentences : sentences[k].ents = <<>>
          /\ input' = t
          /\ result' = Stanza_process_text(proc, t,
                          [raises |-> raises, sentences |-> sentences])
    /\ ner_call' = IF ~proc.use_stanza THEN "not called"
                   ELSE IF raises THEN "raised" ELSE "answered"
    /\ UNCHANGED <<storeVars, ret, seen, relSeen, ingestVars, updaterVars, engineVars, workerVars, proc>>

NextExtract ==
    \/ \E setting \in BOOLEAN, loads \in BOOLEAN : NewNLPProcessor(setting, loads)
    \/ \E loads \in BOOLEAN : NewStanzaNLPProcessor(loads)
    \/ \E t \in ExtractTexts, raises \in BOOLEAN : ProcessText(t, raises)
    \/ \E t \in ExtractTexts, raises \in BOOLEAN : StanzaProcessText(t, raises)

SpecExtract == InitExtract /\ [][NextExtract]_vars

-----------------------------------------------------------------------------
(* SpecKey: make_key applied to a text *)

\* Bound: the length of the texts make_key is applied to.
MaxKeyLen == 3

KeyAlphabet == {"B", "b", "I", "i", "Idot", "inodot", "Ouml", "o", "sp"}

RECURSIVE SeqsUpTo(_, _)
SeqsUpTo(S, n) ==
    IF n = 0 THEN {<<>>}
    ELSE LET shorter == SeqsUpTo(S, n - 1)
         IN  shorter \cup {Append(t, c) : t \in shorter, c \in S}

KeyTexts == SeqsUpTo(KeyAlphabet, MaxKeyLen) \cup {tBURSA, tBursa, tbursaSp}

InitKey ==
    /\ nodes = <<>>
    /\ rels = <<>>
    /\ links = <<>>
    /\ docs = <<>>
    /\ ret = "none"
    /\ seen = <<>>
    /\ relSeen = <<>>
    /\ trail = <<>>
    /\ ingested = 0
    /\ graph_count = 0
    /\ pc = NoWorkers
    /\ job = NoWorkers
    /\ found = NoWorkers
    /\ proc = NoProcessor
    /\ input \in KeyTexts
    /\ result = NoResult
    /\ ner_call = "none"
    /\ is_running = FALSE
    /\ update_stats = NoUpdates
    /\ jobs = 0
    /\ threads = <<>>
    /\ updater_cache = EmptyCache
    /\ engine_cache = EmptyCache
    /\ answer = NoResult

\* make_key(input)
MakeKey ==
    /\ result = NoResult
    /\ result' = Returned(make_key(input))
    /\ UNCHANGED <<storeVars, ret, seen, relSeen, ingestVars, updaterVars, engineVars, workerVars, proc, input, ner_call>>

NextKey == MakeKey

SpecKey == InitKey /\ [][NextKey]_vars

-----------------------------------------------------------------------------
(* search/engine.py: SemanticSearchEngine over the store and its own        *)
(* CacheManager (engine.py:30); the AutoUpdater has another (updater.py:53) *)

\* entity_type = None
NoType == "None"

\* limit: int = 10
DefaultLimit == 10

\* cache_key = "graph_statistics"
StatisticsKey == <<"graph_statistics">>

\* self.cache._generate_key("search_entities", {query, entity_type, limit})
SearchKey(query, entity_type, limit) == <<"search_entities", query, entity_type, limit>>

\* self.memory_cache[key] = value
CacheSet(cache, key, value) ==
    [k \in DOMAIN cache \cup {key} |-> IF k = key THEN value ELSE cache[k]]

\* del self.memory_cache[key], and the expiry of an entry
CacheDelete(cache, key) == [k \in DOMAIN cache \ {key} |-> cache[k]]

\* The labels of the nodes of the graph, Document among them.
LabelsIn(g) ==
    {g.nodes[i].label : i \in DOMAIN g.nodes}
    \cup (IF g.docs = <<>> THEN {} ELSE {"Document"})

\* get_statistics on a cache miss: the two queries and the dict built from them.
statistics(g) ==
    [nodes |-> [l \in LabelsIn(g) |->
                  IF l = "Document" THEN Len(g.docs)
                  ELSE Cardinality({i \in DOMAIN g.nodes : g.nodes[i].label = l})],
     total_nodes |-> Len(g.nodes) + Len(g.docs),
     total_relationships |-> Len(g.rels) + Len(g.links)]

\* The nodes the MATCH ... WHERE of search_entities binds: toLower(n.name)
\* CONTAINS toLower($query) is null, and the row dropped, when the node has
\* no name (a Date node, a Document).
SearchMatches(g, query, entity_type) ==
    {i \in DOMAIN g.nodes :
        /\ entity_type = NoType \/ g.nodes[i].label = entity_type
        /\ g.nodes[i].name # NullText
        /\ IsSubstring(Lower(query), Lower(g.nodes[i].name))}

\* {'name', 'type': labels[0], 'mention_count': mention_count or 0}
SearchRow(n) ==
    [name |-> n.name, type |-> n.label, mention_count |-> CoalesceCount(n.mention_count, 0)]

\* ORDER BY n.mention_count DESC LIMIT $limit: every list of rows the store
\* may return; the order among equal counts is the store's choice.
SearchResults(g, query, entity_type, limit) ==
    The({ {[k \in 1..Min(limit, Cardinality(m)) |-> SearchRow(g.nodes[f[k]])] :
             f \in {h \in [1..Cardinality(m) -> m] :
                       /\ \A a, b \in DOMAIN h : a # b => h[a] # h[b]
                       /\ \A a, b \in DOMAIN h :
                             a < b => g.nodes[h[a]].mention_count >= g.nodes[h[b]].mention_count}} :
          m \in {SearchMatches(g, query, entity_type)}})

\* What a call of the engine returned: the key of the call, the value, and
\* where the value came from ("cache", "store", or "except": the store
\* raised and the except clause returned the empty value).
Answer(call, value, source) == [call |-> call, value |-> value, source |-> source]

\* The values a call computes from graph g on a cache miss.
StoreAnswers(g, call) ==
    IF call = StatisticsKey THEN {statistics(g)}
    ELSE SearchResults(g, call[2], call[3], call[4])

-----------------------------------------------------------------------------
(* SpecServe: the search engine answers while the pipeline and one started  *)
(* updater change the graph.  The behaviours start after start_scheduler.   *)

\* The queries and the type filters of the model.
ServeQueries == {tAli}
ServeTypes == {NoType, "Person"}

InitServe ==
    /\ nodes = <<>>
    /\ rels = <<>>
    /\ links = <<>>
    /\ docs = <<>>
    /\ ret = "none"
    /\ seen = <<>>
    /\ relSeen = <<>>
    /\ trail = <<>>
    /\ ingested = 0
    /\ graph_count = 0
    /\ pc = NoWorkers
    /\ job = NoWorkers
    /\ found = NoWorkers
    /\ proc = NoProcessor
    /\ input = <<>>
    /\ result = NoResult
    /\ ner_call = "none"
    /\ is_running = TRUE
    /\ update_stats = NoUpdates
    /\ jobs = 1
    /\ threads = <<Thread("scheduler")>>
    /\ updater_cache = EmptyCache
    /\ engine_cache = EmptyCache
    /\ answer = NoResult

\* A call of the engine with cache key call: the cached value when the cache
\* has one, else the value computed from the store, which is then cached;
\* ok = FALSE when the store raises.
EngineCall(call, ok) ==
    /\ IF call \in DOMAIN engine_cache
       THEN /\ answer' = Answer(call, engine_cache[call], "cache")
            /\ UNCHANGED engine_cache
       ELSE IF ok
       THEN \E value \in StoreAnswers(G, call) :
               /\ answer' = Answer(call, value, "store")
               /\ engine_cache' = CacheSet(engine_cache, call, value)
       ELSE /\ answer' = Answer(call, <<>>, "except")
            /\ UNCHANGED engine_cache
    /\ UNCHANGED <<storeVars, ret, seen, relSeen, ingestVars, workerVars, extractVars,
                   updaterVars>>

\* get_statistics()
GetStatistics(ok) == EngineCall(StatisticsKey, ok)

\* search_entities(query, entity_type, limit)
SearchEntities(query, entity_type, limit, ok) ==
    EngineCall(SearchKey(query, entity_type, limit), ok)

\* An entry of the engine's TTLCache expires.
CacheExpire(key) ==
    /\ key \in DOMAIN engine_cache
    /\ engine_cache' = CacheDelete(engine_cache, key)
    /\ UNCHANGED <<storeVars, ret, seen, relSeen, ingestVars, workerVars, extractVars,
                   updaterVars, answer>>

NextServe ==
    \/ \E ok \in BOOLEAN : GetStatistics(ok)
    \/ \E query \in ServeQueries, entity_type \in ServeTypes, ok \in BOOLEAN :
          SearchEntities(query, entity_type, DefaultLimit, ok)
    \/ \E key \in DOMAIN engine_cache : CacheExpire(key)
    \/ Ingest("dB", NoFault)
    \/ \E t \in DOMAIN threads : SchedulerRunPending(t)
    \/ \E t \in DOMAIN threads : RunUpdateGuard(t)
    \/ \E t \in DOMAIN threads : ReadCounter(t)
    \/ \E t \in DOMAIN threads : WriteCounter(t)
    \/ \E t \in DOMAIN threads, outcome \in Outcomes : RunUpdateWork(t, outcome, "dA")

SpecServe == InitServe /\ [][NextServe]_vars

-----------------------------------------------------------------------------
(* Claims about the builder calls (Spec) *)

NodeIds == DOMAIN nodes
RelIds == DOMAIN rels

\* The name an entity node displays: value on a Date node, name on the others.
DisplayName(n) == IF n.label = "Date" THEN n.value ELSE n.name

\* Successful create_or_update_node calls whose mention has key k, of any kind.
UpsertsOfKey(k) == SumN(seen, {id \in DOMAIN seen : id[2] = k})

C4_FirstNameKept ==
    \A i \in NodeIds :
        LET id == <<nodes[i].label, nodes[i].normalized_key>>
        IN  id \in DOMAIN seen => DisplayName(nodes[i]) = seen[id].first

\* The relationships whose endpoints have the given labels and keys.
RelsOf(id) ==
    {r \in RelIds :
        /\ nodes[rels[r].from].label = id[1]
        /\ nodes[rels[r].from].normalized_key = id[2]
        /\ nodes[rels[r].to].label = id[3]
        /\ nodes[rels[r].to].normalized_key = id[4]
        /\ rels[r].type = id[5]}

\* The relationships between nodes with the given keys, whatever their labels.
RelsOfKeys(fromKey, toKey, type) ==
    {r \in RelIds :
        /\ nodes[rels[r].from].normalized_key = fromKey
        /\ nodes[rels[r].to].normalized_key = toKey
        /\ rels[r].type = type}

\* The successful create_relationship calls for a triple of keys.
CallsOfKeys(fromKey, toKey, type) ==
    {id \in DOMAIN relSeen : id[2] = fromKey /\ id[4] = toKey /\ id[5] = type}

C9_OneEdgePerPair ==
    \A id \in DOMAIN relSeen :
        LET rev == <<id[3], id[4], id[1], id[2], id[5]>>
            edges == RelsOf(id) \cup RelsOf(rev)
            calls == {id, rev} \cap DOMAIN relSeen
        IN  /\ Cardinality(edges) = 1
            /\ \A r \in edges : rels[r].strength = SumN(relSeen, calls)

\* C10: make_key of an empty or blank text is empty, and no entity node has
\* the empty key.
C10_NoEmptyKey ==
    /\ make_key(<<>>) = <<>>
    /\ make_key(tBlank) = <<>>
    /\ \A i \in NodeIds : nodes[i].normalized_key # <<>>

-----------------------------------------------------------------------------
(* Claims about ingestion (SpecIngest) *)

RECURSIVE SumField(_, _, _)
SumField(seq, ids, field) ==
    IF ids = {} THEN 0
    ELSE LET i == CHOOSE x \in ids : TRUE
         IN  seq[i][field] + SumField(seq, ids \ {i}, field)

\* mention_count of the entity (label, key) in graph g, 0 when it has no node.
CountIn(g, label, key) == SumField(g.nodes, MatchNodes(g.nodes, label, key), "mention_count")

\* The edges of g between the node (id[1], id[2]) and the node (id[3], id[4])
\* with type id[5].
EdgesIn(g, id) ==
    {r \in DOMAIN g.rels :
        /\ g.nodes[g.rels[r].from].label = id[1]
        /\ g.nodes[g.rels[r].from].normalized_key = id[2]
        /\ g.nodes[g.rels[r].to].label = id[3]
        /\ g.nodes[g.rels[r].to].normalized_key = id[4]
        /\ g.rels[r].type = id[5]}

EdgeId(g, r) ==
    <<g.nodes[g.rels[r].from].label, g.nodes[g.rels[r].from].normalized_key,
      g.nodes[g.rels[r].to].label, g.nodes[g.rels[r].to].normalized_key, g.rels[r].type>>

\* strength of the edge id in graph g, 0 when there is none.
StrengthIn(g, id) == SumField(g.rels, EdgesIn(g, id), "strength")

NodeKeys(g) == {<<g.nodes[i].label, g.nodes[i].normalized_key>> : i \in DOMAIN g.nodes}
EdgeKeys(g) == {EdgeId(g, r) : r \in DOMAIN g.rels}

\* What two graphs are compared by: the entity nodes with their mention_count
\* and the edges (endpoints, direction, type) with their strength.
NodeView(g) ==
    {<<g.nodes[i].label, g.nodes[i].normalized_key, g.nodes[i].mention_count>> :
        i \in DOMAIN g.nodes}
EdgeView(g) == {<<EdgeId(g, r), g.rels[r].strength>> : r \in DOMAIN g.rels}

\* The last two ingestions handled the same file / both ran without a fault.
SameFileTwice == Len(trail) = 2 /\ trail[1].doc = trail[2].doc
BothFaultFree == Len(trail) = 2 /\ trail[1].fault = NoFault /\ trail[2].fault = NoFault

\* C6: a file ingested twice, neither run meeting a fault, adds to every
\* mention_count and every strength exactly twice what the first run added, and
\* the second run creates no entity node.
C6_TwiceIsDouble ==
    (SameFileTwice /\ BothFaultFree) =>
        LET g0 == trail[1].before
            g1 == trail[2].before
        IN  /\ \A id \in NodeKeys(G) :
                  CountIn(G, id[1], id[2]) - CountIn(g0, id[1], id[2])
                    = 2 * (CountIn(g1, id[1], id[2]) - CountIn(g0, id[1], id[2]))
            /\ \A id \in EdgeKeys(G) :
                  StrengthIn(G, id) - StrengthIn(g0, id)
                    = 2 * (StrengthIn(g1, id) - StrengthIn(g0, id))
            /\ Len(G.nodes) = Len(g1.nodes)

\* dA was ingested twice in a row into a graph that had the person already:
\* each run added 2 to the person's mention_count and 2 to the edge's strength.
C6_Witness ==
    /\ SameFileTwice /\ BothFaultFree
    /\ Len(trail[1].before.nodes) > 0
    /\ \E id \in NodeKeys(G) :
          CountIn(G, id[1], id[2]) - CountIn(trail[1].before, id[1], id[2]) = 4
    /\ \E id \in EdgeKeys(G) :
          StrengthIn(G, id) - StrengthIn(trail[1].before, id) = 4

\* C7: ingesting a file again, after a run of it that met no fault, leaves
\* total_nodes and the number of relationships as they were after that run.
C7_TotalsUnchanged ==
    (SameFileTwice /\ trail[1].fault = NoFault) =>
        get_graph_stats(G) = get_graph_stats(trail[2].before)

\* A file was ingested twice, and its first run added nodes and relationships.
C7_Witness ==
    /\ SameFileTwice /\ BothFaultFree
    /\ get_graph_stats(trail[2].before).total_nodes
          > get_graph_stats(trail[1].before).total_nodes
    /\ get_graph_stats(trail[2].before).relationships
          > get_graph_stats(trail[1].before).relationships + 2

\* C8: the graph after ingesting A then B has the nodes, counts, edges and
\* strengths of the graph that ingesting B then A gives from the same start.
C8_OrderIndependent ==
    BothFaultFree =>
        LET g0 == trail[1].before
            swapped == step4_build_graph(
                           step4_build_graph(g0, Documents[trail[2].doc], NoFault),
                           Documents[trail[1].doc], NoFault)
        IN  /\ NodeView(G) = NodeView(swapped)
            /\ EdgeView(G) = EdgeView(swapped)
            /\ Len(G.nodes) = Len(swapped.nodes)
            /\ Len(G.rels) = Len(swapped.rels)

\* Two different files that share entities were ingested, the second naming a
\* pair in the reverse order of the first.
C8_Witness ==
    /\ BothFaultFree
    /\ trail[1].doc # trail[2].doc
    /\ \E r \in RelIds, q \in RelIds :
          /\ rels[r].from = rels[q].to
          /\ rels[r].to = rels[q].from
          /\ rels[r].strength + rels[q].strength >= 3

-----------------------------------------------------------------------------
(* Claims about concurrent calls (SpecConc) *)

\* C3: once the concurrent calls have returned, every upserted (label, key)
\* has exactly one node and its mention_count is the number of successful
\* calls for it.
C3_NoDuplicateNoLostIncrement ==
    (\A w \in DOMAIN pc : pc[w] = "idle") =>
        \A id \in DOMAIN seen :
            /\ Cardinality(MatchNodes(nodes, id[1], id[2])) = 1
            /\ \A i \in MatchNodes(nodes, id[1], id[2]) : nodes[i].mention_count = seen[id].n

-----------------------------------------------------------------------------
(* Claims about make_key (SpecKey) *)

\* Letters that differ in case only, and Turkish letters with their base
\* Latin letters.
CasePairs ==
    {<<AsciiUpperSeq[i], AsciiLowerSeq[i]>> : i \in 1..26}
    \cup {<<"Ccedil", "ccedil">>, <<"Gbreve", "gbreve">>, <<"I", "inodot">>,
          <<"Idot", "i">>, <<"Ouml", "ouml">>, <<"Scedil", "scedil">>,
          <<"Uuml", "uuml">>}

TurkishPairs ==
    {<<"ccedil", "c">>, <<"gbreve", "g">>, <<"inodot", "i">>, <<"Idot", "i">>,
     <<"ouml", "o">>, <<"scedil", "s">>, <<"uuml", "u">>,
     <<"Ccedil", "C">>, <<"Gbreve", "G">>, <<"Ouml", "O">>, <<"Scedil", "S">>,
     <<"Uuml", "U">>}

SameLetter(c, d) ==
    \/ <<c, d>> \in CasePairs \cup TurkishPairs
    \/ <<d, c>> \in CasePairs \cup TurkishPairs

InsertAt(t, i, c) == SubSeq(t, 1, i) \o <<c>> \o SubSeq(t, i + 1, Len(t))

KeyLetters == {p[1] : p \in CasePairs \cup TurkishPairs} \cup {p[2] : p \in CasePairs \cup TurkishPairs}

\* The texts one change away from t: one letter in the other case or with
\* its Turkish or base counterpart, or one more whitespace character in front,
\* at the end or next to a whitespace character.
Variants(t) ==
    {[t EXCEPT ![x[1]] = x[2]] :
        x \in {y \in (DOMAIN t) \X KeyLetters : SameLetter(t[y[1]], y[2])}}
    \cup {InsertAt(t, i, w) : i \in {0, Len(t)}, w \in {"sp", "tab", "nbsp"}}
    \cup {InsertAt(t, i, w) :
            i \in {j \in 1..Len(t) : IsSpace(t[j])}, w \in {"sp", "tab", "nbsp"}}

-----------------------------------------------------------------------------
(* Claims about process_text (SpecExtract) *)

\* The mentions and the relationship candidates the call returned; none when
\* it has not returned.
Ents == IF result.status = "returned" THEN result.value.entities ELSE <<>>
Cands == IF result.status = "returned" THEN result.value.relationships ELSE <<>>

ProcessedText(t) == input = t /\ result.status = "returned"
PatternBased == ner_call = "not called"
OneSentence(s) == s \o <<"dot">>
TwoSentences(s1, s2) == s1 \o <<"dot", "sp">> \o s2 \o <<"dot">>

C13_DifferentKinds ==
    /\ \A k \in DOMAIN Cands : Cands[k].entity1_label # Cands[k].entity2_label
    /\ (\A i, j \in DOMAIN Ents : Ents[i].label = Ents[j].label) => Cands = <<>>

\* The first sentence has two PERSON mentions and nothing else and gives no
\* candidate; the second sentence gives candidates.
C13_Witness ==
    /\ ProcessedText(TwoSentences(sTwoPersons, sDava))
    /\ Cardinality({i \in DOMAIN Ents : Ents[i].sentence_idx = 0}) = 2
    /\ \A i \in DOMAIN Ents : Ents[i].sentence_idx = 0 => Ents[i].label = "PERSON"
    /\ Cands # <<>>
    /\ \A k \in DOMAIN Cands : Cands[k].sentence_idx # 0

\* The sentences of the input that survive: their trimmed length is at least
\* MinSentenceLen.  NLPProcessor splits the normalized text.
InputSentences ==
    LET pieces == SplitSentences(IF proc.class = "NLPProcessor" THEN normalize_text(input)
                                 ELSE input, <<>>)
    IN  [k \in DOMAIN pieces |-> Strip(pieces[k])]

Survives(k) == Len(InputSentences[k]) >= MinSentenceLen

\* Mention e is reported for sentence k (counted from 1): it carries the index
\* of the sentence, or it carries none and its text occurs in the sentence.
ReportedFor(e, k) ==
    IF e.sentence_idx = NoneIdx THEN IsSubstring(e.text, InputSentences[k])
    ELSE e.sentence_idx = k - 1

Pairs(c, e1, e2) ==
    /\ c.relation_type = "MENTIONED_WITH"
    /\ \/ /\ c.entity1 = e1.text /\ c.entity1_label = e1.label
          /\ c.entity2 = e2.text /\ c.entity2_label = e2.label
       \/ /\ c.entity1 = e2.text /\ c.entity1_label = e2.label
          /\ c.entity2 = e1.text /\ c.entity2_label = e1.label

\* C14: for every surviving sentence and every two mentions of different
\* kinds that process_text reports for it, the result holds a MENTIONED_WITH
\* candidate pairing them, in the transformer backend too.
C14_AllPairs ==
    result.status = "returned" =>
        \A k \in DOMAIN InputSentences : Survives(k) =>
            \A i, j \in DOMAIN Ents :
                (/\ Ents[i].label # Ents[j].label
                 /\ ReportedFor(Ents[i], k)
                 /\ ReportedFor(Ents[j], k))
                => \E c \in DOMAIN Cands : Pairs(Cands[c], Ents[i], Ents[j])

\* Mention e stems from a surviving sentence: the sentence it carries, or,
\* when it carries none, a sentence its text occurs in.
FromSurvivingSentence(e) ==
    IF e.sentence_idx = NoneIdx
    THEN \E k \in DOMAIN InputSentences : Survives(k) /\ IsSubstring(e.text, InputSentences[k])
    ELSE Len(Strip(e.sentence)) >= MinSentenceLen

\* C15: in every backend, no mention and no relationship candidate returned
\* by process_text stems from a sentence whose trimmed length is under 10
\* characters.
C15_NoShortSentence ==
    /\ \A i \in DOMAIN Ents : FromSurvivingSentence(Ents[i])
    /\ \A k \in DOMAIN Cands : Len(Strip(Cands[k].sentence)) >= MinSentenceLen

\* The model backend of the processor failed: loading it raised in __init__,
\* or calling it raised inside process_text.
LoadFailed ==
    \/ proc.class = "NLPProcessor" /\ ~proc.use_transformers_ner
    \/ proc.class = "StanzaNLPProcessor" /\ ~proc.use_stanza
BackendFailed == LoadFailed \/ ner_call = "raised"

\* The pattern-based extraction result of the processor's class for the input.
PatternResult ==
    IF proc.class = "NLPProcessor"
    THEN Returned(process_with_regex(normalize_text(input)))
    ELSE stanza_process_with_regex(StanzaNLPProcessor(FALSE), input)

\* C16: when the model backend fails, at load time or during a call,
\* process_text of NLPProcessor and of StanzaNLPProcessor raises no error and
\* returns the pattern-based extraction result for the same text.
C16_DegradesToPatterns ==
    (result.status # "none" /\ BackendFailed) =>
        /\ result.status = "returned"
        /\ result = PatternResult

\* C17: in the pattern-based extraction of a sentence a span matched by an
\* earlier pattern or detector is claimed by it: one span never appears as
\* mentions of two different kinds and never as both ends of one relationship
\* candidate.  In the sentences of ExtractSentences no mention text occurs at
\* two places, so two mentions of one sentence with one text are one span.
C17_SpanClaimedOnce ==
    PatternBased =>
        /\ \A i, j \in DOMAIN Ents :
              (/\ Ents[i].sentence_idx = Ents[j].sentence_idx
               /\ Ents[i].text = Ents[j].text)
              => Ents[i].label = Ents[j].label
        /\ \A k \in DOMAIN Cands : Cands[k].entity1 # Cands[k].entity2

-----------------------------------------------------------------------------
(* Claims about failures inside one ingestion (SpecIngest) *)

LastRun == trail[Len(trail)]
LastDoc == Documents[LastRun.doc]

\* The last ingestion met a failure of one item: one entity upsert, one link
\* or one relationship upsert.
ItemFailed == trail # <<>> /\ LastRun.fault[1] \in {"entity", "link", "rel"}

\* The link query run for every entity but the one at position skip.
RECURSIVE LinkEachBut(_, _, _, _, _)
LinkEachBut(g, entities, document_url, k, skip) ==
    IF k > Len(entities) THEN g
    ELSE LinkEachBut(IF k = skip THEN g ELSE LinkOne(g, entities[k], document_url),
                     entities, document_url, k + 1, skip)

\* The graph an ingestion of processed_data leaves from g when the item that
\* fails is the only one without effect: every other entity upsert, every
\* other entity's link and every other relationship upsert is issued, in the
\* order of step4_build_graph.
EveryOtherItemIssued(g, processed_data, fault) ==
    LET entities == processed_data.nlp_result.entities
        relationships == processed_data.nlp_result.relationships
        g1 == create_document_node(g, processed_data)
        g2 == UpsertEntities(g1, entities, 1, fault)
        g3 == LinkEachBut(g2, entities, processed_data.url, 1,
                          IF fault[1] = "link" THEN fault[2] ELSE 0)
    IN  UpsertRelationships(g3, relationships, 1, processed_data.url, fault)

\* C18: within one document ingestion a failure of one entity upsert, one
\* entity-to-document link or one relationship upsert never prevents another
\* item of the document from being attempted: the graph after the run is the
\* graph that issuing every other item gives.
C18_OthersAttempted ==
    ItemFailed => G = EveryOtherItemIssued(LastRun.before, LastDoc, LastRun.fault)

\* What step4_build_graph reports about the last file: what the run added to
\* the count it returns.
LastReport == graph_count - LastRun.count_before

\* The report of a file all of whose items were merged.
FullyMergedReport == 1

\* C19: the result of ingesting a document reports how many entity upserts
\* and relationship upserts succeeded and one error per failed item: a
\* document with a failed item is never reported the same as a fully merged
\* document.
C19_FailureReported == ItemFailed => LastReport # FullyMergedReport

\* C20: an entity or relationship upsert that fails with a transient store
\* error is attempted again before the item is given up.  The failure of the
\* model is transient: it fails the attempt that is made and would not fail
\* the next one, so the graph after the run is the graph of the run without
\* failure.
C20_TransientRetried ==
    (trail # <<>> /\ LastRun.fault[1] \in {"entity", "rel"})
    => G = step4_build_graph(LastRun.before, LastDoc, NoFault)

-----------------------------------------------------------------------------
(* Claims about the two ingestion paths (SpecPaths) *)

\* The mentions of the last page that name the entity of its mention e.
SameEntityIn(e) ==
    {k \in DOMAIN LastDoc.nlp_result.entities :
        SeenId(LastDoc.nlp_result.entities[k]) = SeenId(e)}

\* A MENTIONED_IN edge from the node of mention e to the Document of the last
\* page, carrying the sentence of a mention of that entity in the page.
MentionedIn(e) ==
    \E l \in DOMAIN links :
        /\ docs[links[l].to].url = LastDoc.url
        /\ <<nodes[links[l].from].label, nodes[links[l].from].normalized_key>> = SeenId(e)
        /\ \E k \in SameEntityIn(e) :
              links[l].sentence = LastDoc.nlp_result.entities[k].sentence

\* C21: after a document ingestion by either path in which the Document
\* upsert and an entity's upsert succeeded (and no link query raised), the
\* graph holds a MENTIONED_IN edge from that entity's node to that Document
\* carrying the sentence of the mention, whatever the entity's kind.
C21_MentionedInDocument ==
    (trail # <<>> /\ LastRun.fault[1] \notin {"doc", "link"})
    => \A i \in DOMAIN LastDoc.nlp_result.entities :
          LastRun.fault # <<"entity", i>> => MentionedIn(LastDoc.nlp_result.entities[i])

\* Every call of the first kind is issued before every call of the second kind.
AllBefore(calls, first, second) ==
    \A a, b \in DOMAIN calls :
        (calls[a][1] = first /\ calls[b][1] = second) => a < b

\* C22: in every document ingestion, by the pipeline and by the updater, the
\* Document upsert is issued first, every entity upsert before every
\* entity-to-document link, and every link before every relationship upsert.
C22_PhasesInOrder ==
    trail # <<>>
    => /\ LastRun.issued[1] = <<"doc", 0>>
       /\ AllBefore(LastRun.issued, "entity", "link")
       /\ AllBefore(LastRun.issued, "link", "rel")

-----------------------------------------------------------------------------
(* Claims about the kinds of nodes (SpecBuilder) *)

\* The Organization nodes of the graph.
Organizations == {i \in DOMAIN nodes : nodes[i].label = "Organization"}

\* The relationships a step created or changed.
Touched == {r \in DOMAIN rels' : r \notin DOMAIN rels \/ rels'[r] # rels[r]}

\* The step is a create_or_update_node call for mention e that returned True.
Upserted(e) ==
    /\ seen' = Record(seen, SeenId(e), EntityName(e))
    /\ nodes' = create_or_update_node(G, e).nodes

\* The step is a create_relationship call c that returned True.
Related(c) ==
    /\ create_relationship_result(G, c.entity1, c.entity2)
    /\ relSeen' = RecordRel(relSeen, RelSeenId(c.entity1, c.entity2, c.relation_type),
                            c.document_url, Calls(relSeen) + 1)

\* C24: a Person mention whose key equals or is similar to the key of an
\* existing Organization never resolves to the Organization's node: its
\* upsert leaves every Organization node as it was (no increment of
\* mention_count), and a relationship upsert attaches its Person end to no
\* Organization node.
C24_PersonNeverOrganization ==
    [][/\ \A e \in KindMentions :
             (e.label = "PERSON" /\ Upserted(e))
             => \A i \in Organizations : nodes'[i] = nodes[i]
       /\ \A c \in KindRelCalls :
             Related(c)
             => \A r \in Touched :
                   /\ c.entity1.label = "PERSON" => rels'[r].from \notin Organizations
                   /\ c.entity2.label = "PERSON" => rels'[r].to \notin Organizations]_vars

\* An Organization and, created after it, a Person of the same key and a
\* Person of the similar key, each upserted and the last with a relationship
\* to the Organization.
C24_Witness ==
    \E o \in Organizations, p, q \in DOMAIN nodes :
        /\ ENABLE_FUZZY_MATCH /\ FUZZY_THRESHOLD = 90
        /\ o < p /\ o < q
        /\ nodes[p].label = "Person" /\ nodes[q].label = "Person"
        /\ nodes[o].normalized_key = make_key(tDemirler)
        /\ nodes[p].normalized_key = make_key(tDemirler)
        /\ nodes[q].normalized_key = make_key(tDemirer)
        /\ nodes[o].mention_count = 1
        /\ \E r \in DOMAIN rels : rels[r].from = q /\ rels[r].to = o

\* The step is a clean_database call: the store and its histories are empty.
Cleaned == nodes' = <<>> /\ seen' = <<>> /\ relSeen' = <<>>

\* C25: no operation other than clean_database removes an entity node or
\* lowers its mention_count: across entity upserts, links, Document upserts
\* and relationship upserts every node stays, with its label and key, and
\* its mention_count does not decrease.
C25_NodesStayCountsGrow ==
    [][Cleaned \/ \A i \in DOMAIN nodes :
                     /\ i \in DOMAIN nodes'
                     /\ nodes'[i].label = nodes[i].label
                     /\ nodes'[i].normalized_key = nodes[i].normalized_key
                     /\ nodes'[i].mention_count >= nodes[i].mention_count]_vars

\* Nodes that were upserted, one of them twice, linked to a Document and
\* related.
C25_Witness ==
    /\ \E i \in DOMAIN nodes : nodes[i].mention_count >= 2
    /\ Len(nodes) >= 2
    /\ links # <<>>
    /\ rels # <<>>

\* create_or_update_node returned True for mention e since the store was
\* last emptied.
WasUpserted(e) == SeenId(e) \in DOMAIN seen

\* The nodes create_or_update_node binds for mention e, and the nodes the
\* MATCH of create_relationship and of link_entities_to_document binds for it.
UpsertBinds(e) == MatchNodes(nodes, MergeLabel(get_node_label(e.label)), EntityKey(e))
MatchBinds(e) == MatchNodes(nodes, get_node_label(e.label), EntityKey(e))

\* C26: for every kind, the node create_or_update_node made for a mention is
\* the node create_relationship and link_entities_to_document match for it,
\* and a relationship upsert whose two ends were upserted finds both and
\* returns True, a LegalTerm end included.
C26_UpsertedIsMatched ==
    /\ \A e \in KindMentions : WasUpserted(e) => MatchBinds(e) = UpsertBinds(e)
    /\ \A c \in KindRelCalls :
          (WasUpserted(c.entity1) /\ WasUpserted(c.entity2))
          => create_relationship_result(G, c.entity1, c.entity2)

\* An end of the call c has no node in the graph.
EndAbsent(c) == MatchBinds(c.entity1) = {} \/ MatchBinds(c.entity2) = {}

\* C27: create_relationship never creates or changes an entity node, and
\* when an end has no node it returns False and leaves every node, every
\* relationship, every link and every Document as it was.
C27_RelationshipTouchesNoNode ==
    \A c \in KindRelCalls :
        LET after == create_relationship(G, c.entity1, c.entity2, c.relation_type,
                                         c.document_url)
        IN  /\ after.nodes = nodes
            /\ EndAbsent(c) => /\ after = G
                               /\ ~create_relationship_result(G, c.entity1, c.entity2)

\* create_relationship has just returned False in a graph that has nodes,
\* among them one end of a call whose other end is absent.
C27_Witness ==
    /\ ToString(ret) = "FALSE"
    /\ \E c \in KindRelCalls :
          /\ EndAbsent(c)
          /\ MatchBinds(c.entity1) # {} \/ MatchBinds(c.entity2) # {}

\* C28: the kind recorded for an entity, its node label and the type
\* property of a generic Entity node, is fixed at creation: no later call
\* (clean_database apart) changes the label or the type of a node, whatever
\* the raw label of the mention that resolves to it.
C28_KindFixedAtCreation ==
    [][Cleaned \/ \A i \in DOMAIN nodes :
                     /\ i \in DOMAIN nodes'
                     /\ nodes'[i].label = nodes[i].label
                     /\ nodes'[i].type = nodes[i].type]_vars

-----------------------------------------------------------------------------
(* Claims about the updater's threads (SpecUpdater) *)

\* C29: force_update starts an update run whether or not the scheduler was
\* started: the run_update of a thread that force_update started (it has
\* then returned status 'started') passes its guard, so that it goes on to
\* count itself in total_updates; it never returns at the guard.
C29_ForcedRunPassesGuard ==
    \A t \in DOMAIN threads :
        threads[t].kind = "forced" => threads[t].pc # "skipped"

\* The threads inside run_update, past its guard.
InProgress == {t \in DOMAIN threads : threads[t].pc \in {"read", "write", "work"}}

\* No run_update is in progress or about to test its guard.
AllRunsFinished == \A t \in DOMAIN threads : threads[t].pc \notin {"guard", "read", "write", "work"}

\* C30: under every interleaving of start_scheduler, stop_scheduler,
\* scheduled runs and force_update calls at most one run_update is in
\* progress at a time, and once all runs have finished
\* total_updates = successful_updates + failed_updates.
C30_OneRunAtATime ==
    /\ Cardinality(InProgress) <= 1
    /\ AllRunsFinished
       => update_stats.total_updates
            = update_stats.successful_updates + update_stats.failed_updates

-----------------------------------------------------------------------------
(* Claims about the search engine (SpecServe) *)

\* C23: get_statistics and search_entities return results computed from the
\* store's current state: whenever a call returns (the store not raising),
\* also after an ingestion or an updater run changed the graph, the value is
\* one the call's queries give on the graph as it is, never one stored
\* before the change.
C23_AnswersFromCurrentState ==
    [][(answer' # answer /\ answer'.source # "except")
       => answer'.value \in StoreAnswers(G, answer'.call)]_vars


====
